---- MODULE Spec2Model ----
(***************************************************************************)
(* Model of the orbital-orion browser extension: the token-bucket rate     *)
(* limiter (shell/anti-detection/rate-limiter.ts), the version guard and   *)
(* the scrape session of the injected page script (inject/main-world.ts),  *)
(* and the message routing between popup, content script, page window and  *)
(* service worker.                                                          *)
(*                                                                         *)
(* Numbers.  The limiter's token count is a float.  It is modelled in      *)
(* fixed point: one token is TokenScale units, the clock advances in whole *)
(* ticks (milliseconds) and refillRate is RefillUnits units per tick, so   *)
(* every token count the code can compute at a tick is a whole number of   *)
(* units.  Counts handed to tryConsume are in units as well, so fractional *)
(* counts are covered.                                                     *)
(*                                                                         *)
(* Time.  Every limiter operation is synchronous; all the Date.now() calls *)
(* of one operation read the same tick.                                    *)
(*                                                                         *)
(* Routing.  The queues carry SCRAPE_COMMAND events.  The events a session *)
(* posts are kept in the session's record; on their way through the        *)
(* content script and the service worker they touch neither the limiter    *)
(* nor the sessions.                                                       *)
(***************************************************************************)
EXTENDS Integers, Sequences, FiniteSets, TLC

VARIABLES
    now,          \* the wall clock, Date.now()
    state,        \* the limiter's RateLimiterState record
    call,         \* the last limiter operation: its name, argument and return value
    dom,          \* the host document: what the landmark selectors find
    scrollTop,    \* scrollTop of the chat container
    storedHash,   \* the version guard's storedHash.value
    localStorage, \* localStorage[STORAGE_KEY]
    clicks,       \* the SCRAPE_COMMANDs the popup has sent so far
    tabQ,         \* chrome.tabs.sendMessage: messages on their way to the content script
    windowQ,      \* window.postMessage: commands not yet dispatched
    swQ,          \* chrome.runtime.sendMessage: messages on their way to the service worker
    userScrolls,  \* the viewport moves made by the user so far
    answer,       \* sendResponse: the service worker's latest answer to a command
    swResume,     \* handleScrapeCommand calls whose awaited tabs.sendMessage has settled
    admitted,     \* correlationIds of the commands for which tryConsume(1) returned true
    sessions      \* the executeScrape calls made so far, in order

limiterVars == <<now, state, call>>

pageVars == <<dom, scrollTop, userScrolls, storedHash, localStorage>>

routeVars == <<clicks, tabQ, windowQ, swQ, answer, swResume, admitted>>

scrapeVars == <<pageVars, routeVars, sessions>>

\* What the routing of events that are no commands leaves alone.
limiterKeep ==
    <<now, state, pageVars, clicks, tabQ, answer, swResume, admitted, sessions>>

\* ---------------------------------------------------------------- bounds

\* Granularity of the token count: units per token.
TokenScale == 2

\* The largest clock value explored.
MaxTime == 9

\* The largest single clock advance.
MaxStep == 2

\* ----------------------------------------------------- configuration
\* RateLimiterConfig, scaled down from the service worker's configuration.

\* config.maxTokens, in tokens.
MaxTokens == 3

\* config.refillRate, in units per tick.
RefillUnits == 1

\* config.pauseInterval, in ticks.
PauseInterval == 3

\* config.pauseDuration.min and .max, in ticks.  The range reaches past
\* pauseInterval, so a pause can fall due while a window is still active; the
\* minimum is positive, as in every configuration of the repository.
PauseMin == 1

PauseMax == 4

\* config.maxTokens in units.
maxTokens == MaxTokens * TokenScale

\* The null of `pausedUntil: number | null`; every timestamp is >= 0.
Null == -1

Min(a, b) == IF a <= b THEN a ELSE b

\* Math.floor(tokens) of a token count held in units.
Floor(units) == units \div TokenScale

\* The values pauseDuration.min + Math.random() * (max - min) can take.  A
\* fractional duration d behaves at whole ticks exactly like its ceiling, and
\* the ceilings of [min, max) are min..max when min < max.
PauseDurations == PauseMin..PauseMax

\* Counts handed to tryConsume, all >= 0, in units: every count the bucket can
\* cover at some time, and one it never can.
Counts == 0..(maxTokens + 1)

\* The limiter is inside a pause window at time t.
ActivePause(st, t) == st.pausedUntil # Null /\ t < st.pausedUntil

\* A mandatory pause is due at time t.
PauseDue(st, t) == t - st.lastPauseCheck >= PauseInterval

\* The token count a refill at time t yields, in units.
Refilled(st, t) ==
    LET sum == st.tokens + (t - st.lastRefill) * RefillUnits
    IN  IF sum > maxTokens THEN maxTokens ELSE sum

\* ------------------------------------------------------- the limiter

\* createRateLimiter: the initial state at construction time t.
createRateLimiter(t) ==
    [tokens |-> maxTokens, lastRefill |-> t, lastPauseCheck |-> t,
     pausedUntil |-> Null]

\* Mutant: the refill does not advance lastRefill.
refillTokensNoStamp(st, t) ==
    [st EXCEPT !.tokens = Min(maxTokens,
                              st.tokens + (t - st.lastRefill) * RefillUnits)]

\* Mutant: refill without the cap.
refillTokensNoCap(st, t) ==
    [st EXCEPT !.tokens = st.tokens + (t - st.lastRefill) * RefillUnits,
               !.lastRefill = t]

\* Mutant: refill by one tick's worth whatever the elapsed time.
refillTokensOneTick(st, t) ==
    [st EXCEPT !.tokens = Min(maxTokens, st.tokens + RefillUnits),
               !.lastRefill = t]

\* refillTokens
refillTokens(st, t) ==
    [st EXCEPT !.tokens = Min(maxTokens,
                              st.tokens + (t - st.lastRefill) * RefillUnits),
               !.lastRefill = t]

\* Mutant: no pause is armed while a pause window is active.
checkMandatoryPauseUnlessPaused(st, t, dur) ==
    IF t - st.lastPauseCheck >= PauseInterval
       /\ ~(st.pausedUntil # Null /\ t < st.pausedUntil)
    THEN [st EXCEPT !.pausedUntil = t + dur, !.lastPauseCheck = t]
    ELSE st

\* Mutant: the pause is armed without advancing the last-check timestamp.
checkMandatoryPauseNoStamp(st, t, dur) ==
    IF t - st.lastPauseCheck >= PauseInterval
    THEN [st EXCEPT !.pausedUntil = t + dur]
    ELSE st

\* checkMandatoryPause; dur is the duration Math.random() draws.
checkMandatoryPause(st, t, dur) ==
    IF t - st.lastPauseCheck >= PauseInterval
    THEN [st EXCEPT !.pausedUntil = t + dur, !.lastPauseCheck = t]
    ELSE st

\* Mutant: an expired pause window is never cleared.
isPausedStateNoClear(st, t) == st

\* isPaused: the state it leaves (an expired window is cleared).
isPausedState(st, t) ==
    IF st.pausedUntil # Null /\ t >= st.pausedUntil
    THEN [st EXCEPT !.pausedUntil = Null]
    ELSE st

\* isPaused: the value it returns.
isPausedRet(st, t) ==
    st.pausedUntil # Null /\ ~(t >= st.pausedUntil)

\* Mutant: a count equal to the token count is rejected.
tryConsumeStrict(st, t, dur, count) ==
    LET s1 == checkMandatoryPause(st, t, dur)
        s2 == isPausedState(s1, t)
        s3 == refillTokens(s2, t)
    IN  IF isPausedRet(s1, t) THEN [st |-> s2, ret |-> FALSE]
        ELSE IF s3.tokens <= count THEN [st |-> s3, ret |-> FALSE]
        ELSE [st |-> [s3 EXCEPT !.tokens = s3.tokens - count], ret |-> TRUE]

\* Mutant: tokens are refilled before the pause is looked at.
tryConsumeRefillFirst(st, t, dur, count) ==
    LET s1 == checkMandatoryPause(st, t, dur)
        s2 == refillTokens(isPausedState(s1, t), t)
    IN  IF isPausedRet(s1, t) THEN [st |-> s2, ret |-> FALSE]
        ELSE IF s2.tokens < count THEN [st |-> s2, ret |-> FALSE]
        ELSE [st |-> [s2 EXCEPT !.tokens = s2.tokens - count], ret |-> TRUE]

\* Mutant: a partial debit when tokens do not suffice.
tryConsumePartial(st, t, dur, count) ==
    LET s1 == checkMandatoryPause(st, t, dur)
        s2 == isPausedState(s1, t)
        s3 == refillTokens(s2, t)
    IN  IF isPausedRet(s1, t) THEN [st |-> s2, ret |-> FALSE]
        ELSE IF s3.tokens < count
             THEN [st |-> [s3 EXCEPT !.tokens = 0], ret |-> FALSE]
        ELSE [st |-> [s3 EXCEPT !.tokens = s3.tokens - count], ret |-> TRUE]

\* tryConsume: the state it leaves and the value it returns.
tryConsume(st, t, dur, count) ==
    LET s1 == checkMandatoryPause(st, t, dur)
        s2 == isPausedState(s1, t)
        s3 == refillTokens(s2, t)
    IN  IF isPausedRet(s1, t) THEN [st |-> s2, ret |-> FALSE]
        ELSE IF s3.tokens < count THEN [st |-> s3, ret |-> FALSE]
        ELSE [st |-> [s3 EXCEPT !.tokens = s3.tokens - count], ret |-> TRUE]

\* getTokens: the value it returns (whole tokens), after the refill.
getTokensRet(st, t) == Floor(refillTokens(st, t).tokens)

\* getResumeTime
getResumeTime(st) == st.pausedUntil

\* Mutant: reset leaves the last pause check where it was.
resetKeepCheck(st, t) ==
    [tokens |-> maxTokens, lastRefill |-> t,
     lastPauseCheck |-> st.lastPauseCheck, pausedUntil |-> Null]

\* reset
reset(st, t) ==
    [tokens |-> maxTokens, lastRefill |-> t, lastPauseCheck |-> t,
     pausedUntil |-> Null]

\* A record of a limiter operation: the state it found, its argument, and its
\* return value: b is a boolean return value, n a numeric one (Null where the
\* operation returns null or nothing).
Call(op, pre, count, b, n) ==
    [op |-> op, pre |-> pre, count |-> count, b |-> b, n |-> n]

\* ------------------------------------------------------- limiter actions

\* The clock advances (vi.advanceTimersByTime, or real time passing).
Tick ==
    /\ \E d \in 1..MaxStep :
          /\ now + d <= MaxTime
          /\ now' = now + d
    /\ call' = Call("advance", state, 0, FALSE, Null)
    /\ UNCHANGED state

TryConsume ==
    /\ \E count \in Counts, dur \in PauseDurations :
          LET r == tryConsume(state, now, dur, count)
          IN  /\ state' = r.st
              /\ call' = Call("tryConsume", state, count, r.ret, Null)
    /\ UNCHANGED now

GetTokens ==
    /\ state' = refillTokens(state, now)
    /\ call' = Call("getTokens", state, 0, FALSE, getTokensRet(state, now))
    /\ UNCHANGED now

IsPaused ==
    /\ state' = isPausedState(state, now)
    /\ call' = Call("isPaused", state, 0, isPausedRet(state, now), Null)
    /\ UNCHANGED now

GetResumeTime ==
    /\ call' = Call("getResumeTime", state, 0, FALSE, getResumeTime(state))
    /\ UNCHANGED <<now, state>>

Reset ==
    /\ state' = reset(state, now)
    /\ call' = Call("reset", state, 0, FALSE, Null)
    /\ UNCHANGED now

LimiterInit ==
    /\ now = 0
    /\ state = createRateLimiter(0)
    /\ call = Call("create", state, 0, FALSE, Null)

LimiterNext ==
    \/ Tick
    \/ TryConsume
    \/ GetTokens
    \/ IsPaused
    \/ GetResumeTime
    \/ Reset

\* ------------------------------------------------- the version guard
\* Strings are sequences of UTF-16 code units.

\* The landmark elements a document holds, as querySelector finds them: one
\* probe per entry of CRITICAL_SELECTORS, either NotFound or an element with
\* its tagName, its classList (distinct tokens, document order) and its
\* attributes (name and value).
NotFound == <<>>

Element(tag, classes, attrs) ==
    <<[tagName |-> tag, classList |-> classes, attributes |-> attrs]>>

Attr(name, value) == [name |-> name, value |-> value]

\* String.prototype.toLowerCase on ASCII letters.
RECURSIVE toLowerCase(_)
toLowerCase(str) ==
    IF str = <<>> THEN <<>>
    ELSE <<IF Head(str) >= 65 /\ Head(str) <= 90
           THEN Head(str) + 32 ELSE Head(str)>> \o toLowerCase(Tail(str))

\* The default comparison of Array.prototype.sort: a < b by code units.
RECURSIVE LexLess(_, _)
LexLess(a, b) ==
    IF b = <<>> THEN FALSE
    ELSE IF a = <<>> THEN TRUE
    ELSE IF Head(a) # Head(b) THEN Head(a) < Head(b)
    ELSE LexLess(Tail(a), Tail(b))

\* Array.prototype.sort() of a list of strings.
RECURSIVE Insert(_, _)
Insert(x, sorted) ==
    IF sorted = <<>> THEN <<x>>
    ELSE IF LexLess(x, Head(sorted)) THEN <<x>> \o sorted
    ELSE <<Head(sorted)>> \o Insert(x, Tail(sorted))

RECURSIVE sort(_)
sort(list) ==
    IF list = <<>> THEN <<>> ELSE Insert(Head(list), sort(Tail(list)))

\* Array.prototype.join with a one-character separator.
RECURSIVE join(_, _)
join(list, sep) ==
    IF list = <<>> THEN <<>>
    ELSE IF Len(list) = 1 THEN Head(list)
    ELSE Head(list) \o <<sep>> \o join(Tail(list), sep)

\* "NOT_FOUND"
NOT_FOUND == <<78, 79, 84, 95, 70, 79, 85, 78, 68>>

\* "data-"
DataPrefix == <<100, 97, 116, 97, 45>>

\* String.prototype.startsWith
startsWith(str, prefix) ==
    /\ Len(str) >= Len(prefix)
    /\ SubSeq(str, 1, Len(prefix)) = prefix

\* The data- attributes of an element, each rendered `${name}=${value}`.
RECURSIVE dataAttrs(_)
dataAttrs(attrs) ==
    IF attrs = <<>> THEN <<>>
    ELSE LET a == Head(attrs)
         IN  (IF startsWith(a.name, DataPrefix)
              THEN <<a.name \o <<61>> \o a.value>> ELSE <<>>)
             \o dataAttrs(Tail(attrs))

\* One probe's segment: `${tagName}:${classNames}:${dataAttrs}` or NOT_FOUND.
Segment(probe) ==
    IF probe = NotFound THEN NOT_FOUND
    ELSE LET el == probe[1]
         IN  toLowerCase(el.tagName) \o <<58>>
             \o join(sort(el.classList), 44) \o <<58>>
             \o join(sort(dataAttrs(el.attributes)), 59)

\* The segments of all probes, in the order of CRITICAL_SELECTORS.
RECURSIVE Segments(_)
Segments(doc) ==
    IF doc = <<>> THEN <<>>
    ELSE <<Segment(Head(doc))>> \o Segments(Tail(doc))

\* A 32-bit accumulator is held as two 16-bit halves, hi * 65536 + lo, in
\* two's complement.  One step of the reduce: ((acc << 5) - acc + code) | 0,
\* which is 31 * acc + code wrapped to 32 bits.
HashStep(acc, code) ==
    LET lo == 31 * acc.lo + code
        hi == 31 * acc.hi + (lo \div 65536)
    IN  [hi |-> hi % 65536, lo |-> lo % 65536]

\* Array.prototype.reduce over the code units, left to right: reduce[acc, str]
\* is the accumulator after folding HashStep over str starting from acc.  The
\* fold over a string is the fold over its second half started from the fold
\* over its first half, which keeps the evaluation shallow.
Accumulators == [hi : 0..65535, lo : 0..65535]

reduce[acc \in Accumulators, str \in Seq(Nat)] ==
    IF str = <<>> THEN acc
    ELSE IF Len(str) = 1 THEN HashStep(acc, str[1])
    ELSE reduce[reduce[acc, SubSeq(str, 1, Len(str) \div 2)],
                SubSeq(str, Len(str) \div 2 + 1, Len(str))]

\* Number.prototype.toString(16) of the 32-bit signed value: a minus sign for
\* a negative value, then the magnitude's hexadecimal digits without leading
\* zeros.
RECURSIVE HexDigits(_)
HexDigits(n) ==
    IF n < 16 THEN <<n>> ELSE HexDigits(n \div 16) \o <<n % 16>>

\* The four hexadecimal digits of a 16-bit half.
Hex4(half) ==
    <<(half \div 4096) % 16, (half \div 256) % 16, (half \div 16) % 16,
      half % 16>>

toString16(acc) ==
    IF acc.hi < 32768
    THEN [neg |-> FALSE,
          digits |-> IF acc.hi = 0 THEN HexDigits(acc.lo)
                     ELSE HexDigits(acc.hi) \o Hex4(acc.lo)]
    ELSE \* magnitude = 2^32 - value = (65535 - hi) * 65536 + (65536 - lo)
         LET mlo == (65536 - acc.lo) % 65536
             mhi == (65535 - acc.hi) + (IF acc.lo = 0 THEN 1 ELSE 0)
         IN  [neg |-> TRUE,
              digits |-> IF mhi = 0 THEN HexDigits(mlo)
                         ELSE HexDigits(mhi) \o Hex4(mlo)]

\* generateDomHash(CRITICAL_SELECTORS) on a document.
generateDomHash(doc) ==
    LET str == join(Segments(doc), 124)
    IN  toString16(reduce[[hi |-> 0, lo |-> 0], str])

\* null for a hash: no hexadecimal rendering has no digits.
NoHash == [neg |-> FALSE, digits |-> <<>>]

\* loadStoredHash: localStorage.getItem, or null when it throws.
loadStoredHash(item, throws) == IF throws THEN NoHash ELSE item

\* getStoredHash
getStoredHash(stored) == stored

\* Mutant: the hash is assigned after the write, with no try around it.
updateHashAfterWrite(hash, stored, item, throws) ==
    IF throws
    THEN [storedHash |-> stored, localStorage |-> item, threw |-> TRUE]
    ELSE [storedHash |-> hash, localStorage |-> hash, threw |-> FALSE]

\* updateHash: the stored hash and the localStorage item it leaves (stored
\* and item are the ones it finds); throws says whether localStorage.setItem
\* throws, threw whether the call let an exception escape.
updateHash(hash, stored, item, throws) ==
    [storedHash |-> hash,
     localStorage |-> IF throws THEN item ELSE hash,
     threw |-> FALSE]

\* Mutant: a mismatch is reported and the current hash is stored.
checkAdopts(stored, item, doc, throws) ==
    LET currentHash == generateDomHash(doc)
        written == updateHash(currentHash, stored, item, throws)
    IN  [currentHash |-> currentHash,
         isCompatible |-> (stored = NoHash \/ stored = currentHash),
         threw |-> written.threw, after |-> written]

\* Mutant: the first run reports compatible and stores nothing.
checkNoStore(stored, item, doc, throws) ==
    [currentHash |-> generateDomHash(doc),
     isCompatible |-> (stored = NoHash \/ stored = generateDomHash(doc)),
     threw |-> FALSE,
     after |-> [storedHash |-> stored, localStorage |-> item, threw |-> FALSE]]

\* check: its result, and the stored hash and localStorage item it leaves.
check(stored, item, doc, throws) ==
    LET currentHash == generateDomHash(doc)
        written == updateHash(currentHash, stored, item, throws)
    IN  IF stored = NoHash
        THEN [currentHash |-> currentHash, isCompatible |-> TRUE,
              threw |-> written.threw, after |-> written]
        ELSE [currentHash |-> currentHash,
              isCompatible |-> (stored = currentHash),
              threw |-> FALSE,
              after |-> [storedHash |-> stored, localStorage |-> item,
                         threw |-> FALSE]]

\* ------------------------------------------------------- documents
\* Three structures of the host document.  DocIdle: the application shell
\* with no chat open.  DocChat: a chat is open, the conversation header and
\* message panel exist.  DocRestyled: the shell with another class list.

TagDiv == <<68, 73, 86>>

TagHeader == <<72, 69, 65, 68, 69, 82>>

AttrId == Attr(<<105, 100>>, <<97, 112, 112>>)

AttrTestId(value) ==
    Attr(<<100, 97, 116, 97, 45, 116, 101, 115, 116, 105, 100>>, value)

DocIdle ==
    <<Element(TagDiv, <<<<120>>, <<97>>>>, <<AttrId>>),
      NotFound, NotFound, NotFound, NotFound, NotFound>>

DocChat ==
    <<Element(TagDiv, <<<<120>>, <<97>>>>, <<AttrId>>),
      NotFound, NotFound,
      Element(TagHeader, <<>>, <<AttrTestId(<<104>>)>>),
      Element(TagDiv, <<<<109>>>>, <<AttrTestId(<<109>>)>>),
      NotFound>>

DocRestyled ==
    <<Element(TagDiv, <<<<120>>, <<98>>>>, <<AttrId>>),
      NotFound, NotFound, NotFound, NotFound, NotFound>>

Documents == {DocIdle, DocChat, DocRestyled}

\* findChatContainer: the first selector it tries is the fifth critical
\* selector, the message panel; in the documents above nothing matches its
\* two fallback selectors.
findChatContainer(doc) == doc[5] # NotFound

\* ---------------------------------------------------- scrape bounds

\* The SCRAPE_COMMANDs the popup sends.
MaxCommands == 2

\* The executeScrape calls followed.
MaxSessions == 2

\* The largest scrollDepth, in scroll units.
MaxDepth == 2

\* The largest scrollTop of the container, in scroll units.
MaxScrollTop == 2

\* The viewport moves the user makes.
MaxUserScrolls == 1

\* The distances jitter(300, 45) can give, in scroll units.
ScrollMin == 1

ScrollMax == 2

\* --------------------------------------------------------- messages
\* createEvent: an ExtensionEvent.  The correlationId is kept for commands
\* (the service worker forwards the event object it received); timestamps
\* are left out.

ScrapeCommand(id, depth) ==
    [type |-> "SCRAPE_COMMAND", id |-> id, payload |-> [scrollDepth |-> depth]]

DataExtracted(batchIndex, isComplete) ==
    [type |-> "DATA_EXTRACTED", id |-> 0,
     payload |-> [batchIndex |-> batchIndex, isComplete |-> isComplete]]

ErrorEvent(code, fatal) ==
    [type |-> "ERROR", id |-> 0, payload |-> [code |-> code, fatal |-> fatal]]

RateLimitStatus(tokensRemaining, paused, resumeAt) ==
    [type |-> "RATE_LIMIT_STATUS", id |-> 0,
     payload |-> [tokensRemaining |-> tokensRemaining, isPaused |-> paused,
                  resumeAt |-> resumeAt]]

\* No answer yet.
NoAnswer == [type |-> "NONE"]

isScrapeCommand(event) == event.type = "SCRAPE_COMMAND"

\* -------------------------------------------------- executeScrape

\* The final batch: DATA_EXTRACTED with isComplete = true, then return.
FinalBatch(sess) ==
    [sess EXCEPT !.pc = "done",
                 !.posted = Append(@, DataExtracted(sess.batchIndex, TRUE))]

\* The loop from its test `totalScrolled < scrollDepth`: a batch is posted
\* and scroller.scrollUp is called (top is container.scrollTop, the
\* startPosition performScroll reads), or the loop is left.
LoopTest(sess, top) ==
    IF sess.totalScrolled < sess.depth
    THEN [sess EXCEPT !.pc = "scrolling",
                      !.start = top,
                      !.scrolls = @ + 1,
                      !.posted = Append(@, DataExtracted(sess.batchIndex, FALSE))]
    ELSE FinalBatch(sess)

\* Mutant: a version mismatch is reported and extraction goes on.
executeScrapeNoStop(cmd, chk, hasContainer, top) ==
    LET s0 == [cmd |-> cmd.id, depth |-> cmd.payload.scrollDepth, pc |-> "done",
               compatible |-> chk.isCompatible, checks |-> 1,
               totalScrolled |-> 0, batchIndex |-> 0, scrolls |-> 0,
               start |-> 0, posted |-> <<>>]
        s1 == IF chk.isCompatible THEN s0
              ELSE [s0 EXCEPT !.posted = <<ErrorEvent("VERSION_MISMATCH", TRUE)>>]
    IN  IF ~hasContainer THEN s1 ELSE LoopTest(s1, top)

\* executeScrape up to its first suspension: the version check (chk is what
\* versionGuard.check() returned), the container lookup and the first loop
\* test.  The session record keeps what the call has done: the events it
\* posted, the scrollUp calls and the version checks it made.
executeScrape(cmd, chk, hasContainer, top) ==
    LET s0 == [cmd |-> cmd.id, depth |-> cmd.payload.scrollDepth, pc |-> "done",
               compatible |-> chk.isCompatible, checks |-> 1,
               totalScrolled |-> 0, batchIndex |-> 0, scrolls |-> 0,
               start |-> 0, posted |-> <<>>]
    IN  IF ~chk.isCompatible
        THEN [s0 EXCEPT !.posted = <<ErrorEvent("VERSION_MISMATCH", TRUE)>>]
        ELSE IF ~hasContainer THEN s0
        ELSE LoopTest(s0, top)

\* Mutant: batchIndex is not advanced after a scroll.
AfterScrollSameIndex(sess, distance, top) ==
    LET s1 == [sess EXCEPT !.totalScrolled = @ + distance]
    IN  IF top <= 0 THEN FinalBatch(s1) ELSE LoopTest(s1, top)

\* Mutant: the loop is not left at the top of the chat.
AfterScrollNoTopTest(sess, distance, top) ==
    LoopTest([sess EXCEPT !.totalScrolled = @ + distance,
                          !.batchIndex = @ + 1], top)

\* executeScrape after `await scroller.scrollUp(...)`: the bookkeeping, the
\* top-of-chat test and the next loop test.
AfterScroll(sess, distance, top) ==
    LET s1 == [sess EXCEPT !.totalScrolled = @ + distance,
                           !.batchIndex = @ + 1]
    IN  IF top <= 0 THEN FinalBatch(s1) ELSE LoopTest(s1, top)

Abs(x) == IF x < 0 THEN -x ELSE x

\* element.scrollTop = value, clamped by the host document.
Clamp(value) ==
    IF value < 0 THEN 0 ELSE IF value > MaxScrollTop THEN MaxScrollTop ELSE value

\* ------------------------------------------------------ page actions

\* The host application re-renders: a chat is opened or closed, a release
\* changes the markup.
DomChange ==
    /\ \E d \in Documents :
          /\ d # dom
          /\ dom' = d
    /\ UNCHANGED <<limiterVars, scrollTop, userScrolls, storedHash, localStorage,
                   routeVars, sessions>>

\* The user or the host application moves the chat viewport.
PageScroll ==
    /\ userScrolls < MaxUserScrolls
    /\ \E top \in 0..MaxScrollTop :
          /\ top # scrollTop
          /\ scrollTop' = top
    /\ userScrolls' = userScrolls + 1
    /\ UNCHANGED <<limiterVars, dom, storedHash, localStorage,
                   routeVars, sessions>>

\* ----------------------------------------------------- routing actions

\* Popup, handleStartScrape: the command goes to the content script of the
\* active tab with chrome.tabs.sendMessage.
PopupStartScrape ==
    /\ clicks < MaxCommands
    /\ \E scrollDepth \in 0..MaxDepth :
          tabQ' = Append(tabQ, [from |-> "popup",
                                event |-> ScrapeCommand(clicks + 1, scrollDepth)])
    /\ clicks' = clicks + 1
    /\ UNCHANGED <<limiterVars, pageVars, windowQ, swQ, answer, swResume,
                   admitted, sessions>>

\* Content script, the runtime.onMessage listener: whatever arrives is posted
\* into the page window and acknowledged; the acknowledgement settles the
\* service worker's awaited tabs.sendMessage.
ContentRuntimeListener ==
    /\ tabQ # <<>>
    /\ windowQ' = Append(windowQ, Head(tabQ).event)
    /\ tabQ' = Tail(tabQ)
    /\ swResume' = swResume + (IF Head(tabQ).from = "sw" THEN 1 ELSE 0)
    /\ UNCHANGED <<limiterVars, pageVars, clicks, swQ, answer, admitted, sessions>>

\* Dispatch of a window message event that is a SCRAPE_COMMAND.  The content
\* script's window listener forwards it to the service worker; the main-world
\* listener calls executeScrape, which runs to its first suspension.
WindowDispatchCommand ==
    /\ windowQ # <<>>
    /\ isScrapeCommand(Head(windowQ))
    /\ Len(sessions) < MaxSessions
    /\ LET versionCheck == check(storedHash, localStorage, dom, FALSE)
           started == executeScrape(Head(windowQ), versionCheck,
                                    findChatContainer(dom),
                                    scrollTop)
       IN  /\ swQ' = Append(swQ, Head(windowQ))
           /\ storedHash' = versionCheck.after.storedHash
           /\ localStorage' = versionCheck.after.localStorage
           /\ sessions' = Append(sessions, started)
           /\ windowQ' = Tail(windowQ)
    /\ UNCHANGED <<limiterVars, dom, scrollTop, userScrolls, clicks, tabQ,
                   answer, swResume, admitted>>

\* Service worker, handleScrapeCommand up to its await: a token is asked for;
\* a refused command is answered with the limiter's status, an admitted one
\* is sent to the tab.
SwScrapeCommand ==
    /\ swQ # <<>>
    /\ isScrapeCommand(Head(swQ))
    /\ \E dur \in PauseDurations :
          LET r == tryConsume(state, now, dur, TokenScale)
              s1 == refillTokens(r.st, now)
              s2 == isPausedState(s1, now)
          IN  /\ call' = Call("tryConsume", state, TokenScale, r.ret, Null)
              /\ IF r.ret
                 THEN /\ state' = r.st
                      /\ admitted' = admitted \cup {Head(swQ).id}
                      /\ tabQ' = Append(tabQ, [from |-> "sw", event |-> Head(swQ)])
                      /\ UNCHANGED answer
                 ELSE /\ state' = s2
                      /\ answer' = RateLimitStatus(getTokensRet(r.st, now),
                                                 isPausedRet(s1, now),
                                                 getResumeTime(s2))
                      /\ UNCHANGED <<admitted, tabQ>>
    /\ swQ' = Tail(swQ)
    /\ UNCHANGED <<now, pageVars, clicks, windowQ, swResume, sessions>>

\* Service worker, handleScrapeCommand after its await: the status answer.
SwScrapeResume ==
    /\ swResume > 0
    /\ swResume' = swResume - 1
    /\ state' = refillTokens(state, now)
    /\ call' = Call("getTokens", state, 0, FALSE, getTokensRet(state, now))
    /\ answer' = RateLimitStatus(getTokensRet(state, now), FALSE, Null)
    /\ UNCHANGED <<now, pageVars, clicks, tabQ, windowQ, swQ, admitted, sessions>>

\* ----------------------------------------------------- session actions

\* performScroll's last animation frame (progress = 1) of session i: the
\* final position is written; without a micro-pause the promise resolves at
\* once and executeScrape goes on.
ScrollFinish(i) ==
    /\ sessions[i].pc = "scrolling"
    /\ \E actualDistance \in ScrollMin..ScrollMax :
          LET newPosition == Clamp(sessions[i].start - actualDistance)
              resumed == AfterScroll(sessions[i],
                                     Abs(newPosition - sessions[i].start),
                                     newPosition)
          IN  /\ scrollTop' = newPosition
              /\ sessions' = [sessions EXCEPT ![i] = resumed]
    /\ UNCHANGED <<limiterVars, dom, userScrolls, storedHash,
                   localStorage, routeVars>>

\* The last frame with the micro-pause drawn: the promise stays pending.
ScrollFinishPause(i) ==
    /\ sessions[i].pc = "scrolling"
    /\ \E actualDistance \in ScrollMin..ScrollMax :
          scrollTop' = Clamp(sessions[i].start - actualDistance)
    /\ sessions' = [sessions EXCEPT ![i].pc = "pausing"]
    /\ UNCHANGED <<limiterVars, dom, userScrolls, storedHash,
                   localStorage, routeVars>>

\* The micro-pause's timer fires: the promise resolves with the distance
\* read then, and executeScrape goes on.
ScrollResolve(i) ==
    /\ sessions[i].pc = "pausing"
    /\ LET resumed == AfterScroll(sessions[i],
                                  Abs(scrollTop - sessions[i].start), scrollTop)
       IN  /\ sessions' = [sessions EXCEPT ![i] = resumed]
    /\ UNCHANGED <<limiterVars, pageVars, routeVars>>

\* ---------------------------------------------------- specifications

\* The extension at rest: page loaded, guard created, nothing in flight.
RouteInit ==
    /\ clicks = 0
    /\ tabQ = <<>>
    /\ windowQ = <<>>
    /\ swQ = <<>>
    /\ answer = NoAnswer
    /\ swResume = 0
    /\ admitted = {}
    /\ sessions = <<>>

\* Spec: the limiter alone, driven by any caller.
Init ==
    /\ LimiterInit
    /\ dom = DocIdle
    /\ scrollTop = 0
    /\ userScrolls = 0
    /\ storedHash = NoHash
    /\ localStorage = NoHash
    /\ RouteInit

Next == LimiterNext /\ UNCHANGED scrapeVars

vars == <<limiterVars, scrapeVars>>

Spec == Init /\ [][Next]_vars

\* What an earlier page load can have left in localStorage: nothing, or the
\* hash of the document it saw.
EarlierHashes == {NoHash} \cup {generateDomHash(d) : d \in Documents}

\* SpecScrape: popup, content script, page and service worker.  The guard is
\* created at page load and reads what an earlier page load left in
\* localStorage.  The service worker created its limiter at tick 0; the
\* commands followed arrive at once or a pause interval later, and the whole
\* exchange takes less than a tick.  The fingerprint store works here; its
\* failures are followed in SpecGuard.
ScrapeInit ==
    /\ now \in {0, PauseInterval}
    /\ state = createRateLimiter(0)
    /\ call = Call("create", state, 0, FALSE, Null)
    /\ dom \in Documents
    /\ scrollTop \in 0..MaxScrollTop
    /\ userScrolls = 0
    /\ localStorage \in EarlierHashes
    /\ storedHash = loadStoredHash(localStorage, FALSE)
    /\ RouteInit

ScrapeNext ==
    \/ DomChange
    \/ PageScroll
    \/ PopupStartScrape
    \/ ContentRuntimeListener
    \/ WindowDispatchCommand
    \/ SwScrapeCommand
    \/ SwScrapeResume
    \/ \E i \in 1..Len(sessions) :
          \/ ScrollFinish(i)
          \/ ScrollFinishPause(i)
          \/ ScrollResolve(i)

SpecScrape == ScrapeInit /\ [][ScrapeNext]_vars

\* ------------------------------------------------- SpecLoop
\* One executeScrape call and its extract-then-scroll cycle, on a viewport
\* that the user may move at any time, without limit, as long as each
\* scrollUp still ends with the viewport above where it started or at the
\* top.  A pending animation frame, a pending timer and a posted message
\* are each handled in the end.

\* The user moves the viewport while a scrollUp is under way: before the
\* last frame anywhere (the frame overwrites it), during the micro-pause
\* only to a place above the start of the scrollUp or to the top.
RegularPageScroll ==
    /\ \E i \in 1..Len(sessions), top \in 0..MaxScrollTop :
          /\ \/ sessions[i].pc = "scrolling"
             \/ /\ sessions[i].pc = "pausing"
                /\ (top < sessions[i].start \/ top <= 0)
          /\ top # scrollTop
          /\ scrollTop' = top
    /\ UNCHANGED <<limiterVars, dom, userScrolls, storedHash, localStorage,
                   routeVars, sessions>>

LoopInit ==
    /\ now = 0
    /\ state = createRateLimiter(0)
    /\ call = Call("create", state, 0, FALSE, Null)
    /\ dom \in Documents
    /\ scrollTop \in 0..MaxScrollTop
    /\ userScrolls = 0
    /\ localStorage \in EarlierHashes
    /\ storedHash = loadStoredHash(localStorage, FALSE)
    /\ clicks = 1
    /\ tabQ = <<>>
    /\ \E scrollDepth \in 0..MaxDepth :
          windowQ = <<ScrapeCommand(1, scrollDepth)>>
    /\ swQ = <<>>
    /\ answer = NoAnswer
    /\ swResume = 0
    /\ admitted = {}
    /\ sessions = <<>>

LoopNext ==
    \/ WindowDispatchCommand
    \/ RegularPageScroll
    \/ \E i \in 1..Len(sessions) :
          \/ ScrollFinish(i)
          \/ ScrollFinishPause(i)
          \/ ScrollResolve(i)

LoopFairness ==
    /\ WF_vars(WindowDispatchCommand)
    /\ WF_vars(\E i \in 1..Len(sessions) : ScrollFinish(i) \/ ScrollFinishPause(i))
    /\ WF_vars(\E i \in 1..Len(sessions) : ScrollResolve(i))

SpecLoop == LoopInit /\ [][LoopNext]_vars /\ LoopFairness

\* ------------------------------------------------- SpecRetry
\* The limiter under a caller that retries tryConsume(count) for as long as
\* it lives, with pauseDuration.max < pauseInterval as in the service
\* worker's configuration.  The clock has no end here: now stays where it
\* is and the passing of d ticks moves the limiter's timestamps d ticks
\* into the past instead.  The operations read the timestamps only through
\* now - lastRefill (capped by the bucket), now - lastPauseCheck >=
\* pauseInterval and now < pausedUntil, so a timestamp further back than
\* Horizon stands for every earlier one.

\* The ticks after which a timestamp has no more to say.
Horizon == maxTokens + PauseInterval

\* The pause durations of a configuration with max < pauseInterval.
ShortPauseDurations == PauseMin..(PauseInterval - 1)

\* The limiter's state seen d ticks later.
Later(st, t, d) ==
    LET back(stamp) == IF stamp - d < t - Horizon THEN t - Horizon
                       ELSE stamp - d
    IN  [tokens |-> st.tokens,
         lastRefill |-> back(st.lastRefill),
         lastPauseCheck |-> back(st.lastPauseCheck),
         pausedUntil |-> IF st.pausedUntil = Null THEN Null
                         ELSE back(st.pausedUntil)]

\* The clock advances by d ticks.
RetryTick ==
    /\ \E d \in 1..PauseInterval :
          state' = Later(state, now, d)
    /\ call' = [call EXCEPT !.op = "advance", !.pre = state, !.b = FALSE]
    /\ UNCHANGED now

\* The caller tries again, with the count it started with.
RetryConsume ==
    /\ \E dur \in ShortPauseDurations :
          LET r == tryConsume(state, now, dur, call.count)
          IN  /\ state' = r.st
              /\ call' = Call("tryConsume", state, call.count, r.ret, Null)
    /\ UNCHANGED now

RetryInit ==
    /\ now = 0
    /\ state = createRateLimiter(0)
    /\ \E count \in 1..maxTokens :
          call = Call("create", state, count, FALSE, Null)
    /\ dom = DocIdle
    /\ scrollTop = 0
    /\ userScrolls = 0
    /\ storedHash = NoHash
    /\ localStorage = NoHash
    /\ RouteInit

RetryNext == (RetryTick \/ RetryConsume) /\ UNCHANGED scrapeVars

\* The clock keeps advancing and the caller keeps retrying.
RetryFairness ==
    /\ WF_vars(RetryTick /\ UNCHANGED scrapeVars)
    /\ WF_vars(RetryConsume /\ UNCHANGED scrapeVars)

SpecRetry == RetryInit /\ [][RetryNext]_vars /\ RetryFairness

\* ------------------------------------------------- SpecBucket
\* The limiter without reset(), with a ledger of what was admitted: call
\* keeps, besides the last operation, the units debited at every tick so
\* far (spent).

\* The largest clock value of the ledger.
LedgerTime == 5

NoneSpent == [t \in 0..LedgerTime |-> 0]

BucketTick ==
    /\ \E d \in 1..MaxStep :
          /\ now + d <= LedgerTime
          /\ now' = now + d
    /\ call' = [call EXCEPT !.op = "advance", !.pre = state, !.count = 0,
                            !.b = FALSE]
    /\ UNCHANGED state

BucketConsume ==
    /\ \E count \in Counts, dur \in PauseDurations :
          LET r == tryConsume(state, now, dur, count)
          IN  /\ state' = r.st
              /\ call' = [op |-> "tryConsume", pre |-> state, count |-> count,
                          b |-> r.ret,
                          spent |-> IF r.ret
                                    THEN [call.spent EXCEPT ![now] = @ + count]
                                    ELSE call.spent]
    /\ UNCHANGED now

BucketGetTokens ==
    /\ state' = refillTokens(state, now)
    /\ call' = [call EXCEPT !.op = "getTokens", !.pre = state, !.count = 0,
                            !.b = FALSE]
    /\ UNCHANGED now

BucketIsPaused ==
    /\ state' = isPausedState(state, now)
    /\ call' = [call EXCEPT !.op = "isPaused", !.pre = state, !.count = 0,
                            !.b = isPausedRet(state, now)]
    /\ UNCHANGED now

BucketInit ==
    /\ now = 0
    /\ state = createRateLimiter(0)
    /\ call = [op |-> "create", pre |-> state, count |-> 0, b |-> FALSE,
               spent |-> NoneSpent]
    /\ dom = DocIdle
    /\ scrollTop = 0
    /\ userScrolls = 0
    /\ storedHash = NoHash
    /\ localStorage = NoHash
    /\ RouteInit

BucketNext ==
    /\ \/ BucketTick
       \/ BucketConsume
       \/ BucketGetTokens
       \/ BucketIsPaused
    /\ UNCHANGED scrapeVars

SpecBucket == BucketInit /\ [][BucketNext]_vars

\* ------------------------------------------------- SpecSigned
\* The limiter under a caller that hands tryConsume any number: count is
\* typed number and is not validated.

\* Counts of either sign, in units: up to a token each way.
SignedCounts == (0 - TokenScale)..TokenScale

SignedConsume ==
    /\ \E count \in SignedCounts, dur \in PauseDurations :
          LET r == tryConsume(state, now, dur, count)
          IN  /\ state' = r.st
              /\ call' = Call("tryConsume", state, count, r.ret, Null)
    /\ UNCHANGED now

SignedNext == (Tick \/ SignedConsume \/ GetTokens) /\ UNCHANGED scrapeVars

SpecSigned == Init /\ [][SignedNext]_vars

\* ------------------------------------------------- SpecKeepAlive
\* KEEP_ALIVE events between the page window, the content script and the
\* service worker of one tab.  windowQ holds the window messages not yet
\* dispatched, swQ the runtime messages on their way to the service worker,
\* each with the place its answer goes to; call counts what was sent and
\* what the service worker handled.

\* The pings of the content script's startKeepAlive followed.
MaxPings == 2

\* The messages the service worker handles, at most.
MaxHandled == 8

KeepAlive(source) ==
    [type |-> "KEEP_ALIVE", id |-> 0, payload |-> [source |-> source]]

isKeepAlive(event) == event.type = "KEEP_ALIVE"

\* null for an answer of the service worker.
NoEvent == [type |-> "null"]

\* handleMessage for the events routed here: handleKeepAlive answers with a
\* KEEP_ALIVE of its own, and an event of no handled type gets null.
handleMessage(event) ==
    IF isKeepAlive(event) THEN KeepAlive("content") ELSE NoEvent

\* main-world.ts, on load: the ready notification is posted to the window.
KaReady ==
    /\ ~call.ready
    /\ windowQ' = Append(windowQ, KeepAlive("content"))
    /\ call' = [call EXCEPT !.op = "ready", !.ready = TRUE]
    /\ UNCHANGED <<swQ, limiterKeep>>

\* Content script, startKeepAlive: a ping, its answer dropped.
KaPing ==
    /\ call.pings < MaxPings
    /\ swQ' = Append(swQ, [from |-> "ping", event |-> KeepAlive("content")])
    /\ call' = [call EXCEPT !.op = "ping", !.pings = @ + 1]
    /\ UNCHANGED <<windowQ, limiterKeep>>

\* Content script, the window message listener: a window message of this
\* window with source "whatsapp-scraper" is sent to the service worker.
\* The main-world listener sees it too and ignores what is no command.
KaWindowListener ==
    /\ windowQ # <<>>
    /\ swQ' = Append(swQ, [from |-> "window", event |-> Head(windowQ)])
    /\ windowQ' = Tail(windowQ)
    /\ call' = [call EXCEPT !.op = "forward", !.forwards = @ + 1]
    /\ UNCHANGED limiterKeep

\* Service worker, the runtime message listener: handleMessage, then
\* sendResponse; the window listener posts an answer that is not null back
\* into the window.
KaServiceWorker ==
    /\ swQ # <<>>
    /\ call.handled < MaxHandled
    /\ LET response == handleMessage(Head(swQ).event)
       IN  /\ windowQ' = IF Head(swQ).from = "window" /\ response # NoEvent
                         THEN Append(windowQ, response)
                         ELSE windowQ
           /\ call' = [call EXCEPT
                          !.op = "handle",
                          !.handled = @ + 1,
                          !.keepAlives = @ + (IF isKeepAlive(Head(swQ).event)
                                              THEN 1 ELSE 0),
                          !.answered = @ + (IF response # NoEvent
                                            THEN 1 ELSE 0)]
    /\ swQ' = Tail(swQ)
    /\ UNCHANGED limiterKeep

KaInit ==
    /\ now = 0
    /\ state = createRateLimiter(0)
    /\ call = [op |-> "load", ready |-> FALSE, pings |-> 0, forwards |-> 0,
               handled |-> 0, keepAlives |-> 0, answered |-> 0]
    /\ dom = DocIdle
    /\ scrollTop = 0
    /\ userScrolls = 0
    /\ storedHash = NoHash
    /\ localStorage = NoHash
    /\ RouteInit

KaNext ==
    \/ KaReady
    \/ KaPing
    \/ KaWindowListener
    \/ KaServiceWorker

SpecKeepAlive == KaInit /\ [][KaNext]_vars

\* ------------------------------------------------- SpecScroll
\* createHeuristicScroller: one scrollUp or scrollDown at a time on one
\* element, frame by frame.  Time is in ticks; positions are in scroll
\* units, and the element keeps whole units.  call holds the operation:
\* what performScroll drew and read at its start, whether an animation
\* frame or a timer is pending, and what the operation has done so far.

\* The longest duration jitter(400, 100) gives, in ticks.
MaxDuration == 3

\* The micro-pauses randomDelay(50, 200) can give, in ticks.
DelayMin == 1

DelayMax == 2

\* cubicBezier(t, p0, p1, p2, p3) at t = elapsed / duration, the control
\* points in hundredths: the value is num / den.
cubicBezier(elapsed, duration, p0, p1, p2, p3) ==
    LET oneMinusT == duration - elapsed
    IN  [num |-> oneMinusT * oneMinusT * oneMinusT * p0
                 + 3 * oneMinusT * oneMinusT * elapsed * p1
                 + 3 * oneMinusT * elapsed * elapsed * p2
                 + elapsed * elapsed * elapsed * p3,
         den |-> 100 * duration * duration * duration]

\* resolve({distance: Math.abs(element.scrollTop - startPosition), ...}).
resolve(op, top) ==
    [op EXCEPT !.pc = "resolved",
               !.resolves = @ + 1,
               !.distance = Abs(top - op.startPosition),
               !.topAtResolve = top]

\* Mutant: the frame with progress = 1 asks for one more frame.
animateReschedules(op, currentTime, shouldPause, delay) ==
    LET elapsed == currentTime - op.startTime
        progress == Min(elapsed, op.duration)
        easedProgress == cubicBezier(progress, op.duration, 0, 42, 58, 100)
        newPosition == op.startPosition
                       + op.sign * ((op.actualDistance * easedProgress.num)
                                        \div easedProgress.den)
        written == [op EXCEPT !.late = op.final,
                              !.final = @ \/ progress = op.duration,
                              !.written = newPosition]
    IN  [top |-> Clamp(newPosition),
         op |-> IF progress < op.duration
                THEN written
                ELSE IF op.final THEN [written EXCEPT !.pending = FALSE]
                ELSE IF shouldPause
                THEN [written EXCEPT !.pc = "pausing", !.pause = TRUE,
                                     !.due = currentTime + delay]
                ELSE resolve(written, Clamp(newPosition))]

\* animate(currentTime), a frame of the operation op: the position is
\* written and either the next frame is asked for or, at progress = 1, the
\* micro-pause is drawn and the promise resolves now or after the pause.
animate(op, currentTime, shouldPause, delay) ==
    LET elapsed == currentTime - op.startTime
        progress == Min(elapsed, op.duration)
        easedProgress == cubicBezier(progress, op.duration, 0, 42, 58, 100)
        newPosition == op.startPosition
                       + op.sign * ((op.actualDistance * easedProgress.num)
                                        \div easedProgress.den)
        written == [op EXCEPT !.late = op.final,
                              !.final = @ \/ progress = op.duration,
                              !.written = newPosition]
    IN  [top |-> Clamp(newPosition),
         op |-> IF progress < op.duration
                THEN written
                ELSE IF shouldPause
                THEN [written EXCEPT !.pending = FALSE, !.pc = "pausing",
                                     !.pause = TRUE,
                                     !.due = currentTime + delay]
                ELSE resolve([written EXCEPT !.pending = FALSE],
                             Clamp(newPosition))]

\* performScroll up to its first suspension: the draws, the reads of
\* scrollTop and of the clock, and the request of the first frame.
performScroll(direction, actualDistance, duration, top, time) ==
    [op |-> direction, pc |-> "animating",
     sign |-> IF direction = "up" THEN -1 ELSE 1,
     actualDistance |-> actualDistance, duration |-> duration,
     startPosition |-> top, startTime |-> time,
     pending |-> TRUE, final |-> FALSE, late |-> FALSE, written |-> Null,
     pause |-> FALSE, due |-> Null, resolves |-> 0, distance |-> Null,
     topAtResolve |-> Null, resolvedAt |-> Null]

scrollFrame ==
    <<state, dom, userScrolls, storedHash, localStorage, routeVars, sessions>>

\* scroller.scrollUp / scroller.scrollDown is called; the caller awaits the
\* operation before it calls again.
ScrollCall ==
    /\ call.pc \in {"idle", "resolved"}
    /\ \E direction \in {"up", "down"}, actualDistance \in ScrollMin..ScrollMax,
          duration \in 1..MaxDuration :
          call' = performScroll(direction, actualDistance, duration,
                                scrollTop, now)
    /\ UNCHANGED <<now, scrollTop, scrollFrame>>

\* The pending animation frame runs.
ScrollAnimate ==
    /\ call.pending
    /\ \E shouldPause \in BOOLEAN, delay \in DelayMin..DelayMax :
          LET frame == animate(call, now, shouldPause, delay)
          IN  /\ scrollTop' = frame.top
              /\ call' = IF frame.op.pc = "resolved" /\ call.pc # "resolved"
                         THEN [frame.op EXCEPT !.resolvedAt = now]
                         ELSE frame.op
    /\ UNCHANGED <<now, scrollFrame>>

\* The micro-pause's timer fires, no earlier than it is due.
ScrollTimer ==
    /\ call.pc = "pausing"
    /\ now >= call.due
    /\ call' = [resolve(call, scrollTop) EXCEPT !.resolvedAt = now]
    /\ UNCHANGED <<now, scrollTop, scrollFrame>>

\* The user or the host application moves the viewport.
ScrollUser ==
    /\ \E top \in 0..MaxScrollTop :
          /\ top # scrollTop
          /\ scrollTop' = top
    /\ UNCHANGED <<now, call, scrollFrame>>

ScrollTick ==
    /\ now < MaxTime
    /\ now' = now + 1
    /\ UNCHANGED <<call, scrollTop, scrollFrame>>

ScrollInit ==
    /\ now = 0
    /\ state = createRateLimiter(0)
    /\ dom = DocChat
    /\ scrollTop \in 0..MaxScrollTop
    /\ userScrolls = 0
    /\ storedHash = NoHash
    /\ localStorage = NoHash
    /\ RouteInit
    /\ call = [performScroll("up", ScrollMin, 1, 0, 0)
                   EXCEPT !.op = "none", !.pc = "idle", !.pending = FALSE]

ScrollNext ==
    \/ ScrollCall
    \/ ScrollAnimate
    \/ ScrollTimer
    \/ ScrollUser
    \/ ScrollTick

SpecScroll == ScrollInit /\ [][ScrollNext]_vars

\* ------------------------------------------------- SpecGuard
\* The version guard alone, on a document that changes and a fingerprint
\* store that may throw on any access.

\* The documents followed here are shells that differ in the class list of
\* the first landmark: DocIdle, DocRestyled, and two more with the class
\* lists "Aa" and "BB".
DocAa ==
    <<Element(TagDiv, <<<<65, 97>>>>, <<AttrId>>),
      NotFound, NotFound, NotFound, NotFound, NotFound>>

DocBB ==
    <<Element(TagDiv, <<<<66, 66>>>>, <<AttrId>>),
      NotFound, NotFound, NotFound, NotFound, NotFound>>

GuardDocuments == {DocIdle, DocRestyled, DocAa, DocBB}

GuardHashes == {NoHash} \cup {generateDomHash(d) : d \in GuardDocuments}

\* What the guard's operations leave alone.
guardFrame == <<now, state, scrollTop, userScrolls, routeVars, sessions>>

\* What a guard operation finds.
GuardPre == [storedHash |-> storedHash, localStorage |-> localStorage, dom |-> dom]

\* A record of a guard operation: what it found, its argument, whether the
\* store threw, what it returned, whether an exception escaped, and the
\* operation before it.
GuardCall(op, arg, throws, ret, threw) ==
    [op |-> op, pre |-> GuardPre, arg |-> arg, throws |-> throws, ret |-> ret,
     threw |-> threw,
     prev |-> [op |-> call.op, pre |-> call.pre, ret |-> call.ret]]

\* createVersionGuard: a page load.
GuardCreate ==
    /\ \E throws \in BOOLEAN :
          /\ storedHash' = loadStoredHash(localStorage, throws)
          /\ call' = GuardCall("create", NoHash, throws, NoHash, FALSE)
    /\ UNCHANGED <<dom, localStorage, guardFrame>>

GuardCheck ==
    /\ \E throws \in BOOLEAN :
          LET r == check(storedHash, localStorage, dom, throws)
          IN  /\ storedHash' = r.after.storedHash
              /\ localStorage' = r.after.localStorage
              /\ call' = GuardCall("check", NoHash, throws,
                                   [currentHash |-> r.currentHash,
                                    isCompatible |-> r.isCompatible],
                                   r.threw)
    /\ UNCHANGED <<dom, guardFrame>>

GuardUpdateHash ==
    /\ \E hash \in GuardHashes \ {NoHash}, throws \in BOOLEAN :
          LET r == updateHash(hash, storedHash, localStorage, throws)
          IN  /\ storedHash' = r.storedHash
              /\ localStorage' = r.localStorage
              /\ call' = GuardCall("updateHash", hash, throws, NoHash, r.threw)
    /\ UNCHANGED <<dom, guardFrame>>

GuardGetStoredHash ==
    /\ call' = GuardCall("getStoredHash", NoHash, FALSE,
                         getStoredHash(storedHash), FALSE)
    /\ UNCHANGED <<dom, storedHash, localStorage, guardFrame>>

\* The host application re-renders.
GuardDomChange ==
    /\ \E d \in GuardDocuments :
          /\ d # dom
          /\ dom' = d
    /\ UNCHANGED <<call, storedHash, localStorage, guardFrame>>

GuardInit ==
    /\ now = 0
    /\ state = createRateLimiter(0)
    /\ scrollTop = 0
    /\ userScrolls = 0
    /\ RouteInit
    /\ dom \in GuardDocuments
    /\ localStorage \in GuardHashes
    /\ \E throws \in BOOLEAN :
          /\ storedHash = loadStoredHash(localStorage, throws)
          /\ call = [op |-> "create",
                     pre |-> [storedHash |-> NoHash, localStorage |-> localStorage,
                              dom |-> dom],
                     arg |-> NoHash, throws |-> throws, ret |-> NoHash,
                     threw |-> FALSE,
                     prev |-> [op |-> "none", pre |-> NoHash, ret |-> NoHash]]

GuardNext ==
    \/ GuardCreate
    \/ GuardCheck
    \/ GuardUpdateHash
    \/ GuardGetStoredHash
    \/ GuardDomChange

SpecGuard == GuardInit /\ [][GuardNext]_vars

\* ------------------------------------------------- fiber traversal
\* A fiber graph: nodes 1..MaxTreeNodes, each with a return, a child and a
\* sibling link, to a node or to null.  Nothing in RawFiberNode keeps the
\* links from forming a cycle or from sharing a node.  A predicate is the
\* set of nodes it holds for.

\* The nodes of a fiber graph.
MaxTreeNodes == 3

\* The largest maxDepth handed to traverseUpwards and traverseDownwards.
MaxTraverseDepth == 3

\* The largest maxNodes handed to collectNodes.
MaxCollect == 4

\* The call depth past which a collectNodes walk is known never to return.
\* A frame returns without going deeper once results holds maxNodes
\* entries, so a walk that returns grows results fewer than maxNodes
\* times; a call chain this deep has a stretch longer than the number of
\* nodes over which results did not grow, the stretch comes to one node
\* twice with the same results, and the walk repeats it without end.  The
\* engine's call stack is finite: such a walk ends in RangeError.
StackLimit == (MaxTreeNodes + 1) * (MaxCollect + 2)

TNodes == 1..MaxTreeNodes

\* null for a node.
TNull == 0

Links == [TNodes -> TNodes \cup {TNull}]

NoLinks == [n \in TNodes |-> TNull]

\* ok(value) and err(error), error a {type, message} record.
ok(value) == [ok |-> TRUE, value |-> value]

err(error) == [ok |-> FALSE, error |-> error]

\* The two failures of an upward walk and the two of a downward walk; the
\* number in "Max depth N exceeded" is left out of the message.
UpwardsRootReached ==
    [type |-> "TRAVERSAL_FAILED",
     message |-> "Reached root of fiber tree without finding match"]

UpwardsDepthExceeded ==
    [type |-> "TRAVERSAL_FAILED",
     message |-> "Max depth exceeded during upward traversal"]

DownwardsNoMatch ==
    [type |-> "TRAVERSAL_FAILED",
     message |-> "No matching node found in subtree"]

DownwardsDepthExceeded ==
    [type |-> "TRAVERSAL_FAILED",
     message |-> "Max depth exceeded during downward traversal"]

\* Mutant: the depth test refuses a match exactly at maxDepth.
RECURSIVE upTraverseStrict(_, _, _, _, _)
upTraverseStrict(up, predicate, maxDepth, current, depth) ==
    IF current = TNull THEN err(UpwardsRootReached)
    ELSE IF depth >= maxDepth THEN err(UpwardsDepthExceeded)
    ELSE IF current \in predicate THEN ok(current)
    ELSE upTraverseStrict(up, predicate, maxDepth, up[current], depth + 1)

\* traverseUpwards, its inner traverse(current, depth).
RECURSIVE upTraverse(_, _, _, _, _)
upTraverse(up, predicate, maxDepth, current, depth) ==
    IF current = TNull THEN err(UpwardsRootReached)
    ELSE IF depth > maxDepth THEN err(UpwardsDepthExceeded)
    ELSE IF current \in predicate THEN ok(current)
    ELSE upTraverse(up, predicate, maxDepth, up[current], depth + 1)

traverseUpwards(graph, fiberNode, predicate, maxDepth) ==
    upTraverse(graph.return, predicate, maxDepth, fiberNode, 0)

\* Mutant: the sibling subtree is searched before the child subtree.
RECURSIVE downTraverseSiblingFirst(_, _, _, _, _)
downTraverseSiblingFirst(graph, predicate, maxDepth, current, depth) ==
    IF current = TNull THEN err(DownwardsNoMatch)
    ELSE IF depth > maxDepth THEN err(DownwardsDepthExceeded)
    ELSE IF current \in predicate THEN ok(current)
    ELSE LET siblingResult ==
                 downTraverseSiblingFirst(graph, predicate, maxDepth,
                                          graph.sibling[current], depth + 1)
         IN  IF siblingResult.ok THEN siblingResult
             ELSE downTraverseSiblingFirst(graph, predicate, maxDepth,
                                           graph.child[current], depth + 1)

\* traverseDownwards, its inner traverse(current, depth).
RECURSIVE downTraverse(_, _, _, _, _)
downTraverse(graph, predicate, maxDepth, current, depth) ==
    IF current = TNull THEN err(DownwardsNoMatch)
    ELSE IF depth > maxDepth THEN err(DownwardsDepthExceeded)
    ELSE IF current \in predicate THEN ok(current)
    ELSE LET childResult ==
                 downTraverse(graph, predicate, maxDepth,
                              graph.child[current], depth + 1)
         IN  IF childResult.ok THEN childResult
             ELSE downTraverse(graph, predicate, maxDepth,
                               graph.sibling[current], depth + 1)

traverseDownwards(graph, fiberNode, predicate, maxDepth) ==
    downTraverse(graph, predicate, maxDepth, fiberNode, 0)

\* Mutant: the limit is tested after the push of the node at hand.
RECURSIVE collectTraverseLate(_, _, _, _, _, _)
collectTraverseLate(graph, predicate, maxNodes, current, acc, frames) ==
    IF acc.threw THEN acc
    ELSE IF frames > StackLimit THEN [acc EXCEPT !.threw = TRUE]
    ELSE IF current = TNull THEN acc
    ELSE LET pushed == IF current \in predicate
                       THEN [acc EXCEPT !.results = Append(@, current)]
                       ELSE acc
         IN  IF Len(pushed.results) >= maxNodes THEN pushed
             ELSE collectTraverseLate(graph, predicate, maxNodes,
                      graph.sibling[current],
                      collectTraverseLate(graph, predicate, maxNodes,
                          graph.child[current], pushed, frames + 1),
                      frames + 1)

\* collectNodes, its inner traverse(current): acc is the results array and
\* whether the recursion has overflowed the call stack (RangeError, which
\* unwinds every frame); frames is the depth of the call at hand.
RECURSIVE collectTraverse(_, _, _, _, _, _)
collectTraverse(graph, predicate, maxNodes, current, acc, frames) ==
    IF acc.threw THEN acc
    ELSE IF frames > StackLimit THEN [acc EXCEPT !.threw = TRUE]
    ELSE IF current = TNull \/ Len(acc.results) >= maxNodes THEN acc
    ELSE LET pushed == IF current \in predicate
                       THEN [acc EXCEPT !.results = Append(@, current)]
                       ELSE acc
         IN  collectTraverse(graph, predicate, maxNodes,
                 graph.sibling[current],
                 collectTraverse(graph, predicate, maxNodes,
                     graph.child[current], pushed, frames + 1),
                 frames + 1)

collectNodes(graph, fiberNode, predicate, maxNodes) ==
    collectTraverse(graph, predicate, maxNodes, fiberNode,
                    [results |-> <<>>, threw |-> FALSE], 1)

\* The nodes a walk over child and sibling links visits when nothing stops
\* it but null and the depth cutoff, in pre-order: a node, its first-child
\* subtree, its next-sibling subtree, each link one level deeper.
RECURSIVE PreOrder(_, _, _, _)
PreOrder(graph, current, depth, cutoff) ==
    IF current = TNull \/ depth > cutoff THEN <<>>
    ELSE <<current>>
         \o PreOrder(graph, graph.child[current], depth + 1, cutoff)
         \o PreOrder(graph, graph.sibling[current], depth + 1, cutoff)

\* Every node the child and sibling links lead to from root, a walk
\* MaxTreeNodes links deep, in pre-order.
AllPreOrder(graph, root) == PreOrder(graph, root, 0, MaxTreeNodes)

\* The child and sibling links from root form a finite tree: no walk comes
\* to a node twice.  A cycle or a shared node brings a node back within
\* MaxTreeNodes links.
IsTree(graph, root) ==
    LET nodes == AllPreOrder(graph, root)
    IN  \A i, j \in 1..Len(nodes) : nodes[i] = nodes[j] => i = j

\* The fiber graphs followed: every way to set the return links with no
\* child or sibling, and every way to set the child and sibling links with
\* no return.
FiberGraphs ==
    {[return |-> r, child |-> NoLinks, sibling |-> NoLinks] : r \in Links}
    \cup {[return |-> NoLinks, child |-> c, sibling |-> s] : c, s \in Links}

traversalFrame == <<now, state, pageVars, routeVars, sessions>>

\* A traversal is a pure function of a graph, a start node, a predicate and
\* a limit (maxDepth or maxNodes): call holds the arguments and the result
\* of the last traversal of them.
TraverseUpwards ==
    /\ call.limit <= MaxTraverseDepth
    /\ call' = [call EXCEPT
                   !.op = "traverseUpwards",
                   !.ret = traverseUpwards(call.graph, call.fiberNode,
                                           call.predicate, call.limit)]
    /\ UNCHANGED traversalFrame

TraverseDownwards ==
    /\ call.limit <= MaxTraverseDepth
    /\ call' = [call EXCEPT
                   !.op = "traverseDownwards",
                   !.ret = traverseDownwards(call.graph, call.fiberNode,
                                             call.predicate, call.limit)]
    /\ UNCHANGED traversalFrame

CollectNodes ==
    /\ call.limit <= MaxCollect
    /\ call' = [call EXCEPT
                   !.op = "collectNodes",
                   !.ret = collectNodes(call.graph, call.fiberNode,
                                        call.predicate, call.limit)]
    /\ UNCHANGED traversalFrame

TraversalInit ==
    /\ now = 0
    /\ state = createRateLimiter(0)
    /\ dom = DocIdle
    /\ scrollTop = 0
    /\ userScrolls = 0
    /\ storedHash = NoHash
    /\ localStorage = NoHash
    /\ RouteInit
    /\ \E graph \in FiberGraphs, fiberNode \in TNodes,
          predicate \in SUBSET TNodes, limit \in 0..MaxCollect :
          call = [op |-> "none", graph |-> graph, fiberNode |-> fiberNode,
                  predicate |-> predicate, limit |-> limit,
                  ret |-> err([type |-> "NONE", message |-> ""])]

TraversalNext ==
    \/ TraverseUpwards
    \/ TraverseDownwards
    \/ CollectNodes

SpecTraversal == TraversalInit /\ [][TraversalNext]_vars

\* ------------------------------------------------- message parser
\* A JavaScript value carries its kind and, under a field named for the
\* kind, what it holds.  An object holds a record of its properties.

Undefined == [type |-> "undefined"]

JsNull == [type |-> "null"]

Str(s) == [type |-> "string", str |-> s]

Num(n) == [type |-> "number", num |-> n]

NaN == [type |-> "number", nan |-> TRUE]

Infinity == [type |-> "number", inf |-> TRUE]

Bool(b) == [type |-> "boolean", bool |-> b]

Obj(fields) == [type |-> "object", fields |-> fields]

\* typeof value.
typeof(value) == IF value = JsNull THEN "object" ELSE value.type

\* object.name: undefined for a property the object does not have.
Get(object, name) ==
    IF name \in DOMAIN object.fields THEN object.fields[name] ELSE Undefined

\* a ?? b.
Coalesce(a, b) == IF a = JsNull \/ a = Undefined THEN b ELSE a

NumberIsNaN(value) == value = NaN

parseString(value, fieldName) ==
    IF typeof(value) = "string"
    THEN ok(value)
    ELSE err([type |-> "INVALID_PROPS",
              message |-> <<"Expected string for", fieldName, typeof(value)>>])

\* Mutant: NaN passes for a number.
parseNumberAnyNumber(value, fieldName) ==
    IF typeof(value) = "number"
    THEN ok(value)
    ELSE err([type |-> "INVALID_PROPS",
              message |-> <<"Expected number for", fieldName, typeof(value)>>])

parseNumber(value, fieldName) ==
    IF typeof(value) = "number" /\ ~NumberIsNaN(value)
    THEN ok(value)
    ELSE err([type |-> "INVALID_PROPS",
              message |-> <<"Expected number for", fieldName, typeof(value)>>])

parseBoolean(value) ==
    Bool(value = Bool(TRUE) \/ value = Str("true") \/ value = Num(1))

parseOptionalString(value) ==
    IF typeof(value) = "string" THEN value ELSE JsNull

parseOptionalNumber(value) ==
    IF typeof(value) = "number" /\ ~NumberIsNaN(value) THEN value ELSE JsNull

parseMessageStatus(ack) ==
    IF typeof(ack) # "number" THEN Str("pending")
    ELSE IF ack = Num(0) THEN Str("pending")
    ELSE IF ack = Num(1) THEN Str("sent")
    ELSE IF ack = Num(2) THEN Str("delivered")
    ELSE IF ack = Num(3) THEN Str("read")
    ELSE IF ack = Num(4) THEN Str("played")
    ELSE Str("pending")

validTypes ==
    {"image", "video", "audio", "document", "sticker", "contact", "location"}

parseAttachmentType(type) ==
    IF typeof(type) = "string" /\ type.str \in validTypes THEN type ELSE JsNull

\* Mutant: an empty name falls back to the identifier (|| for ??).
parseSenderEmptyName(props) ==
    IF props = JsNull \/ typeof(props) # "object"
    THEN err([type |-> "INVALID_PROPS",
              message |-> <<"Sender props must be an object">>])
    ELSE IF Get(props, "id") = JsNull \/ Get(props, "id") = Undefined
    THEN err([type |-> "MISSING_REQUIRED_FIELD",
              message |-> <<"Sender ID is required">>])
    ELSE LET idResult == parseString(Get(props, "id"), "sender.id")
             givenName == parseOptionalString(Get(props, "name"))
         IN  IF ~idResult.ok THEN idResult
             ELSE ok([id |-> idResult.value,
                      name |-> IF givenName \in {JsNull, Str("")}
                               THEN idResult.value ELSE givenName,
                      pushName |-> parseOptionalString(Get(props, "pushname")),
                      isContact |-> parseBoolean(Get(props, "isContact"))])

parseSender(props) ==
    IF props = JsNull \/ typeof(props) # "object"
    THEN err([type |-> "INVALID_PROPS",
              message |-> <<"Sender props must be an object">>])
    ELSE IF Get(props, "id") = JsNull \/ Get(props, "id") = Undefined
    THEN err([type |-> "MISSING_REQUIRED_FIELD",
              message |-> <<"Sender ID is required">>])
    ELSE LET idResult == parseString(Get(props, "id"), "sender.id")
         IN  IF ~idResult.ok THEN idResult
             ELSE ok([id |-> idResult.value,
                      name |-> Coalesce(parseOptionalString(Get(props, "name")),
                                        idResult.value),
                      pushName |-> parseOptionalString(Get(props, "pushname")),
                      isContact |-> parseBoolean(Get(props, "isContact"))])

\* parseAttachment; uuid is what crypto.randomUUID() gives this call.
parseAttachment(props, uuid) ==
    IF props = JsNull \/ typeof(props) # "object"
    THEN err([type |-> "INVALID_PROPS",
              message |-> <<"Attachment props must be an object">>])
    ELSE LET attachmentType == parseAttachmentType(Get(props, "type"))
         IN  IF attachmentType = JsNull
             THEN err([type |-> "INVALID_PROPS",
                       message |-> <<"Invalid attachment type">>])
             ELSE ok([id |-> Str(uuid),
                      type |-> attachmentType,
                      url |-> parseOptionalString(Get(props, "url")),
                      mimeType |->
                          Coalesce(parseOptionalString(Get(props, "mimetype")),
                                   Str("application/octet-stream")),
                      fileName |-> parseOptionalString(Get(props, "filename")),
                      fileSize |-> parseOptionalNumber(Get(props, "size")),
                      thumbnailUrl |-> JsNull,
                      duration |-> parseOptionalNumber(Get(props, "duration")),
                      width |-> parseOptionalNumber(Get(props, "width")),
                      height |-> parseOptionalNumber(Get(props, "height"))])

\* The attachments array of parseMessage.
parseAttachments(mediaData, uuid) ==
    IF mediaData # JsNull /\ mediaData # Undefined
    THEN LET attachmentResult == parseAttachment(mediaData, uuid)
         IN  IF attachmentResult.ok THEN <<attachmentResult.value>> ELSE <<>>
    ELSE <<>>

\* Mutant: a mediaData that parseAttachment rejects fails the message.
parseMessageStrictMedia(props, uuid) ==
    IF props = JsNull \/ typeof(props) # "object"
    THEN err([type |-> "INVALID_PROPS",
              message |-> <<"Message props must be an object">>])
    ELSE IF Get(props, "id") = JsNull \/ Get(props, "id") = Undefined
    THEN err([type |-> "MISSING_REQUIRED_FIELD",
              message |-> <<"Message ID is required">>])
    ELSE IF Get(props, "t") = JsNull \/ Get(props, "t") = Undefined
    THEN err([type |-> "MISSING_REQUIRED_FIELD",
              message |-> <<"Message timestamp is required">>])
    ELSE IF ~parseString(Get(props, "id"), "id").ok
    THEN parseString(Get(props, "id"), "id")
    ELSE IF ~parseNumber(Get(props, "t"), "timestamp").ok
    THEN parseNumber(Get(props, "t"), "timestamp")
    ELSE IF /\ Get(props, "mediaData") # JsNull
            /\ Get(props, "mediaData") # Undefined
            /\ ~parseAttachment(Get(props, "mediaData"), uuid).ok
    THEN parseAttachment(Get(props, "mediaData"), uuid)
    ELSE ok([id |-> Get(props, "id"), timestamp |-> Get(props, "t"),
             attachments |-> parseAttachments(Get(props, "mediaData"), uuid)])

\* Mutant: the timestamp is tested before the identifier.
parseMessageTimestampFirst(props, uuid) ==
    IF props = JsNull \/ typeof(props) # "object"
    THEN err([type |-> "INVALID_PROPS",
              message |-> <<"Message props must be an object">>])
    ELSE IF Get(props, "t") = JsNull \/ Get(props, "t") = Undefined
    THEN err([type |-> "MISSING_REQUIRED_FIELD",
              message |-> <<"Message timestamp is required">>])
    ELSE IF Get(props, "id") = JsNull \/ Get(props, "id") = Undefined
    THEN err([type |-> "MISSING_REQUIRED_FIELD",
              message |-> <<"Message ID is required">>])
    ELSE err([type |-> "INVALID_PROPS", message |-> <<"">>])

parseMessage(props, uuid) ==
    IF props = JsNull \/ typeof(props) # "object"
    THEN err([type |-> "INVALID_PROPS",
              message |-> <<"Message props must be an object">>])
    ELSE IF Get(props, "id") = JsNull \/ Get(props, "id") = Undefined
    THEN err([type |-> "MISSING_REQUIRED_FIELD",
              message |-> <<"Message ID is required">>])
    ELSE IF Get(props, "t") = JsNull \/ Get(props, "t") = Undefined
    THEN err([type |-> "MISSING_REQUIRED_FIELD",
              message |-> <<"Message timestamp is required">>])
    ELSE LET idResult == parseString(Get(props, "id"), "id")
             timestampResult == parseNumber(Get(props, "t"), "timestamp")
             quotedMsg == Get(props, "quotedMsg")
         IN  IF ~idResult.ok THEN idResult
             ELSE IF ~timestampResult.ok THEN timestampResult
             ELSE ok([id |-> idResult.value,
                      timestamp |-> timestampResult.value,
                      sender |->
                          [id |-> Coalesce(parseOptionalString(Get(props, "from")),
                                           Str("unknown")),
                           name |-> Coalesce(parseOptionalString(Get(props, "from")),
                                             Str("Unknown")),
                           pushName |-> JsNull,
                           isContact |-> Bool(FALSE)],
                      body |-> Coalesce(parseOptionalString(Get(props, "body")),
                                        Str("")),
                      isFromMe |-> parseBoolean(Get(props, "self")),
                      quotedMessageId |->
                          parseOptionalString(
                              IF typeof(quotedMsg) = "object" /\ quotedMsg # JsNull
                              THEN Get(quotedMsg, "id")
                              ELSE JsNull),
                      attachments |->
                          parseAttachments(Get(props, "mediaData"), uuid),
                      status |-> parseMessageStatus(Get(props, "ack")),
                      isForwarded |-> parseBoolean(Get(props, "isForwarded")),
                      isStarred |-> parseBoolean(Get(props, "isStarred"))])

\* bag[name] on a property bag: undefined for a property the bag lacks.
BagGet(bag, name) == IF name \in DOMAIN bag THEN bag[name] ELSE Undefined

\* Mutant: the "msg" property is looked up before "message".
extractMessageFromFiberMsgFirst(node, uuid) ==
    LET messageProps == Coalesce(BagGet(node.memoizedProps, "msg"),
                                 BagGet(node.memoizedProps, "message"))
    IN  IF messageProps = Undefined
        THEN err([type |-> "MISSING_REQUIRED_FIELD",
                  message |-> <<"No message property found in Fiber node props">>])
        ELSE parseMessage(messageProps, uuid)

extractMessageFromFiber(node, uuid) ==
    LET messageProps == Coalesce(BagGet(node.memoizedProps, "message"),
                                 BagGet(node.memoizedProps, "msg"))
    IN  IF messageProps = Undefined
        THEN err([type |-> "MISSING_REQUIRED_FIELD",
                  message |-> <<"No message property found in Fiber node props">>])
        ELSE parseMessage(messageProps, uuid)

\* A function component with a name and a displayName.
Component(name, displayName) ==
    [type |-> "function", name |-> name, displayName |-> displayName]

\* isComponentByName, on the node's type.
isComponentByName(nodeType, componentName) ==
    IF nodeType = JsNull THEN FALSE
    ELSE IF typeof(nodeType) = "string" THEN nodeType = Str(componentName)
    ELSE \/ nodeType.name = Str(componentName)
         \/ nodeType.displayName = Str(componentName)

\* byComponentName(name), as the set of the page's nodes it holds for.
byComponentName(page, name) ==
    {n \in TNodes : isComponentByName(page.type[n], name)}

\* The maxNodes extractMessages hands to collectNodes.
ExtractMaxNodes == 500

\* Mutant: the loop of extractMessages stops at the first node that fails
\* to parse.
RECURSIVE extractLoopAbort(_, _, _, _, _)
extractLoopAbort(page, uuids, messageNodes, i, messages) ==
    IF i > Len(messageNodes) THEN messages
    ELSE LET result == extractMessageFromFiber(
                           [memoizedProps |-> page.memoizedProps[messageNodes[i]]],
                           uuids[messageNodes[i]])
         IN  IF result.ok
             THEN extractLoopAbort(page, uuids, messageNodes, i + 1,
                                   Append(messages, result.value))
             ELSE messages

\* The for loop of extractMessages over messageNodes, from the i-th on.
RECURSIVE extractLoop(_, _, _, _, _)
extractLoop(page, uuids, messageNodes, i, messages) ==
    IF i > Len(messageNodes) THEN messages
    ELSE LET result == extractMessageFromFiber(
                           [memoizedProps |-> page.memoizedProps[messageNodes[i]]],
                           uuids[messageNodes[i]])
         IN  extractLoop(page, uuids, messageNodes, i + 1,
                         IF result.ok THEN Append(messages, result.value)
                         ELSE messages)

\* extractMessages on a page: whether the chat container is found, the
\* fiber getFiberFromElement gives for it (or null), and the fiber graph
\* with each node's type and property bag.  uuids is what
\* crypto.randomUUID() gives while each node is parsed.  threw: the walk
\* of collectNodes overflowed the stack.
extractMessages(page, uuids) ==
    IF ~page.container THEN [messages |-> <<>>, threw |-> FALSE]
    ELSE IF page.fiber = TNull THEN [messages |-> <<>>, threw |-> FALSE]
    ELSE LET collected == collectNodes(page.graph, page.fiber,
                                       byComponentName(page, "Message"),
                                       ExtractMaxNodes)
         IN  IF collected.threw THEN [messages |-> <<>>, threw |-> TRUE]
             ELSE [messages |-> extractLoop(page, uuids, collected.results,
                                            1, <<>>),
                   threw |-> FALSE]

\* The largest timestamp a props object carries.
MaxTimestamp == 2

\* The largest ack a props object carries.
MaxAck == 2

\* The values tried for id: absent, null, strings, and values of other
\* kinds.
IdValues ==
    {Undefined, JsNull, Str(""), Str("x"), Num(1), NaN, Bool(TRUE),
     Obj([id |-> Str("x")])}

\* The values tried for t.
TValues ==
    {Undefined, JsNull, NaN, Infinity, Str("1"), Bool(TRUE)}
    \cup {Num(n) : n \in 0..MaxTimestamp}

MediaObject(type, url, mimetype, filename, size, duration, width, height) ==
    Obj([type |-> type, url |-> url, mimetype |-> mimetype,
         filename |-> filename, size |-> size, duration |-> duration,
         width |-> width, height |-> height])

\* The values tried for mediaData: absent, null, a string, and media
\* objects with no type, a type outside the list, and a listed type.
MediaValues ==
    {Undefined, JsNull, Str("image"),
     MediaObject(Undefined, Undefined, Undefined, Undefined, Undefined,
                 Undefined, Undefined, Undefined),
     MediaObject(Str("bogus"), Str("blob:1"), Undefined, Undefined, Undefined,
                 Undefined, Undefined, Undefined),
     MediaObject(Str("image"), Undefined, Undefined, Undefined, Undefined,
                 Undefined, Undefined, Undefined),
     MediaObject(Str("video"), Str("blob:1"), Str("video/mp4"), Str("a.mp4"),
                 Num(1), NaN, Num(1), Str("1"))}

\* The props objects tried: every combination of the values above with a
\* few values of each other optional field ({} is the object whose fields
\* are all undefined).
MessageObjects ==
    {Obj([id |-> id, t |-> t, from |-> from, body |-> body, self |-> self,
          quotedMsg |-> quotedMsg, isForwarded |-> isForwarded,
          isStarred |-> isStarred, ack |-> ack, mediaData |-> mediaData]) :
        id \in IdValues, t \in TValues,
        from \in {Undefined, Str("alice")},
        body \in {Undefined, Str("hi"), Num(1)},
        self \in {Undefined, Str("true")},
        quotedMsg \in {Undefined, Obj([id |-> Str("q")])},
        isForwarded \in {Undefined, Bool(TRUE)},
        isStarred \in {Undefined, Num(1)},
        ack \in {Undefined, NaN} \cup {Num(n) : n \in 0..MaxAck},
        mediaData \in MediaValues}

\* What parseMessage is handed: a props object or a value that is none.
MessageProps ==
    {JsNull, Undefined, Str("x"), Num(1), Bool(TRUE)} \cup MessageObjects

\* The sender props tried: values that are no object, and objects with an
\* id, a name, a pushname and an isContact that are absent, of the expected
\* kind, or of another kind.
SenderProps ==
    {JsNull, Undefined, Str("u1"), Num(1), Bool(TRUE)}
    \cup {Obj([id |-> id, name |-> name, pushname |-> pushname,
               isContact |-> isContact]) :
            id \in {Undefined, JsNull, Str(""), Str("u1"), Num(1), NaN,
                    Bool(TRUE), Obj([id |-> Str("u1")])},
            name \in {Undefined, JsNull, Str(""), Str("John"), Num(1)},
            pushname \in {Undefined, JsNull, Str("Johnny"), Num(1)},
            isContact \in {Undefined, JsNull, Bool(TRUE), Bool(FALSE),
                           Str("true"), Str("yes"), Num(1), Num(0)}}

\* The values a "message" or "msg" property holds: undefined, null, a
\* string, two messages that parse, one without id, one with media.
BagValues ==
    {Undefined, JsNull, Str("x"),
     Obj([id |-> Str("m1"), t |-> Num(1)]),
     Obj([id |-> Str("m2"), t |-> Num(MaxTimestamp), body |-> Str("hi")]),
     Obj([t |-> Num(1)]),
     Obj([id |-> Str("m3"), t |-> Num(0),
          mediaData |-> Obj([type |-> Str("image")])])}

\* The property bags tried: "message" and "msg" each absent or holding one
\* of the values above.
FiberBags == UNION {[D -> BagValues] : D \in SUBSET {"message", "msg"}}

FiberNodes == {[memoizedProps |-> bag] : bag \in FiberBags}

\* The fiber trees under node 1: child and sibling links that come to no
\* node twice, the nodes out of reach left without links.
FiberTrees ==
    {g \in FiberGraphs :
        /\ g.return = NoLinks
        /\ IsTree(g, 1)
        /\ \A n \in TNodes :
              (\A i \in 1..Len(AllPreOrder(g, 1)) : AllPreOrder(g, 1)[i] # n)
                  => (g.child[n] = TNull /\ g.sibling[n] = TNull)}

\* The node types tried: null, a host tag, and components called Message
\* by name or by displayName.
FiberTypes ==
    {JsNull, Str("div"), Component(Str("Message"), Undefined),
     Component(Str("Row"), Str("Message"))}

\* The property bags of the nodes of a page: a message, a message with
\* media under "msg", and a message without id.
PageBags ==
    {[message |-> Obj([id |-> Str("m1"), t |-> Num(1)])],
     [msg |-> Obj([id |-> Str("m3"), t |-> Num(0),
                   mediaData |-> Obj([type |-> Str("image")])])],
     [message |-> Obj([t |-> Num(1)])]}

\* The pages extractMessages is run on.
Pages ==
    {[container |-> container, fiber |-> fiber, graph |-> graph,
      type |-> type, memoizedProps |-> bags] :
        container \in BOOLEAN, fiber \in {TNull, 1}, graph \in FiberTrees,
        type \in [TNodes -> FiberTypes], bags \in [TNodes -> PageBags]}

\* What crypto.randomUUID() may give.
UUIDs == {"uuid-1", "uuid-2"}

parserFrame == <<now, state, pageVars, routeVars, sessions>>

\* parseMessage(props): call holds the argument and the result.
ParseMessage ==
    /\ call.kind = "message"
    /\ \E uuid \in UUIDs :
          call' = [call EXCEPT !.op = "parseMessage",
                               !.ret = parseMessage(call.props, uuid)]
    /\ UNCHANGED parserFrame

\* parseSender(props).
ParseSender ==
    /\ call.kind = "sender"
    /\ call' = [call EXCEPT !.op = "parseSender",
                            !.ret = parseSender(call.props)]
    /\ UNCHANGED parserFrame

\* extractMessageFromFiber(node).
ExtractMessageFromFiber ==
    /\ call.kind = "fiber"
    /\ \E uuid \in UUIDs :
          call' = [call EXCEPT !.op = "extractMessageFromFiber",
                               !.ret = extractMessageFromFiber(call.props, uuid)]
    /\ UNCHANGED parserFrame

\* extractMessages() on the page at hand.
ExtractMessages ==
    /\ call.kind = "page"
    /\ \E uuids \in [TNodes -> UUIDs] :
          call' = [call EXCEPT !.op = "extractMessages",
                               !.ret = extractMessages(call.props, uuids)]
    /\ UNCHANGED parserFrame

\* A parser argument before its call: kind names the function it is for.
ParserCall(kind, props) ==
    [op |-> "none", kind |-> kind, props |-> props,
     ret |-> err([type |-> "NONE", message |-> <<>>])]

ParserInit ==
    /\ now = 0
    /\ state = createRateLimiter(0)
    /\ dom = DocIdle
    /\ scrollTop = 0
    /\ userScrolls = 0
    /\ storedHash = NoHash
    /\ localStorage = NoHash
    /\ RouteInit
    /\ \/ \E props \in MessageProps : call = ParserCall("message", props)
       \/ \E props \in SenderProps : call = ParserCall("sender", props)
       \/ \E node \in FiberNodes : call = ParserCall("fiber", node)

ParserNext ==
    \/ ParseMessage
    \/ ParseSender
    \/ ExtractMessageFromFiber

SpecParser == ParserInit /\ [][ParserNext]_vars

\* extractMessages alone, over the pages.
PageInit ==
    /\ now = 0
    /\ state = createRateLimiter(0)
    /\ dom = DocIdle
    /\ scrollTop = 0
    /\ userScrolls = 0
    /\ storedHash = NoHash
    /\ localStorage = NoHash
    /\ RouteInit
    /\ \E page \in Pages : call = ParserCall("page", page)

PageNext == ExtractMessages

SpecPage == PageInit /\ [][PageNext]_vars

\* ------------------------------------------------- SpecPersist
\* DATA_EXTRACTED events at the service worker and the offscreen document
\* behind it.  Runtime messages are JavaScript objects.  swQ holds the
\* events on their way to the service worker; call holds the offscreen
\* document's side: whether it exists, the runtime messages on their way to
\* its listener (inbox), the threads saveThreadWithMessages was called with
\* (saved), and how many events arrived.

\* The DATA_EXTRACTED events followed.
MaxBatches == 3

\* A DATA_EXTRACTED event as the content script sends it on.
Batch(threadId, messages, isComplete) ==
    Obj([type |-> Str("DATA_EXTRACTED"),
         payload |-> [threadInfo |-> [id |-> threadId,
                                      name |-> Str("Chat"),
                                      isGroup |-> Bool(FALSE)],
                      messages |-> messages,
                      isComplete |-> isComplete]])

isDataExtracted(event) == Get(event, "type") = Str("DATA_EXTRACTED")

isPersistData(event) == Get(event, "type") = Str("PERSIST_DATA")

\* The object handleDataExtracted hands to chrome.runtime.sendMessage.
PersistMessage(event) ==
    LET payload == Get(event, "payload")
    IN  Obj([target |-> Str("offscreen"),
             event |-> Obj([type |-> Str("PERSIST_DATA"),
                            payload |->
                                [thread |->
                                     [id |-> Coalesce(payload.threadInfo.id,
                                                      Str("unknown")),
                                      name |-> Coalesce(payload.threadInfo.name,
                                                        Str("Unknown Chat")),
                                      isGroup |->
                                          Coalesce(payload.threadInfo.isGroup,
                                                   Bool(FALSE)),
                                      messages |-> payload.messages],
                                 overwrite |-> FALSE]])])

\* The offscreen document's runtime listener on a message: the threads
\* saved after it.  The message is taken for the event itself.
offscreenListener(message, saved) ==
    IF isPersistData(message)
    THEN Append(saved, Get(message, "payload").thread)
    ELSE saved

\* A DATA_EXTRACTED event reaches the service worker.
PsDataExtracted ==
    /\ call.arrived < MaxBatches
    /\ \E threadId \in {Str("t1"), Undefined}, messages \in {<<>>, <<1>>},
          isComplete \in BOOLEAN :
          swQ' = Append(swQ, Batch(threadId, messages, isComplete))
    /\ call' = [call EXCEPT !.op = "arrive", !.arrived = @ + 1]
    /\ UNCHANGED <<windowQ, limiterKeep>>

\* Service worker, handleDataExtracted: the offscreen document is created
\* if there is none and the PERSIST_DATA message is sent.
PsHandleDataExtracted ==
    /\ swQ # <<>>
    /\ isDataExtracted(Head(swQ))
    /\ call' = [call EXCEPT !.op = "handle",
                            !.offscreen = TRUE,
                            !.inbox = Append(@, PersistMessage(Head(swQ)))]
    /\ swQ' = Tail(swQ)
    /\ UNCHANGED <<windowQ, limiterKeep>>

\* Offscreen document, the runtime message listener.
PsOffscreenListener ==
    /\ call.inbox # <<>>
    /\ call' = [call EXCEPT !.op = "listen",
                            !.inbox = Tail(@),
                            !.saved = offscreenListener(Head(call.inbox), @)]
    /\ UNCHANGED <<swQ, windowQ, limiterKeep>>

PsInit ==
    /\ now = 0
    /\ state = createRateLimiter(0)
    /\ call = [op |-> "load", offscreen |-> FALSE, inbox |-> <<>>,
               saved |-> <<>>, arrived |-> 0]
    /\ dom = DocIdle
    /\ scrollTop = 0
    /\ userScrolls = 0
    /\ storedHash = NoHash
    /\ localStorage = NoHash
    /\ RouteInit

PsNext ==
    \/ PsDataExtracted
    \/ PsHandleDataExtracted
    \/ PsOffscreenListener

SpecPersist == PsInit /\ [][PsNext]_vars

\* ------------------------------------------------------------- claims

\* C1: every extraction session in the page was started for a command that
\* the service worker's rateLimiter.tryConsume(1) had admitted.  The popup
\* sends its command to the content script, which posts it into the page,
\* where executeScrape starts before the service worker has seen the command:
\* the statement fails.
C1_SessionOnlyForAdmittedCommand ==
    \A i \in 1..Len(sessions) : sessions[i].cmd \in admitted

\* C2: a session whose version check reported isCompatible = false has posted
\* exactly one event, ERROR with code VERSION_MISMATCH and fatal = true, has
\* ended, has called scrollUp never and versionGuard.check() once.
C2_VersionMismatchStops ==
    \A i \in 1..Len(sessions) :
        ~sessions[i].compatible =>
            /\ sessions[i].pc = "done"
            /\ sessions[i].posted = <<ErrorEvent("VERSION_MISMATCH", TRUE)>>
            /\ sessions[i].scrolls = 0
            /\ sessions[i].checks = 1

\* C2 witness: a session hit the mismatch on a page where extraction could
\* have gone on: a chat container below its top and a positive scrollDepth.
C2_Witness ==
    \E i \in 1..Len(sessions) :
        /\ ~sessions[i].compatible
        /\ sessions[i].depth > 0
        /\ findChatContainer(dom)
        /\ scrollTop > 0
        /\ userScrolls = 0
        /\ dom = DocChat
        /\ localStorage # generateDomHash(DocChat)

\* C11 (as amended): a check() on a guard with no stored fingerprint stores
\* the current fingerprint and reports compatible; a check() on a guard with
\* a stored fingerprint reports compatible exactly when the current
\* fingerprint equals it, and leaves it; and of two consecutive check()
\* calls on the same document the second reports compatible when the first
\* did.
C11_CheckContract ==
    call.op = "check" =>
        LET currentHash == generateDomHash(call.pre.dom)
        IN  /\ call.ret.currentHash = currentHash
            /\ call.pre.storedHash = NoHash =>
                  /\ call.ret.isCompatible
                  /\ getStoredHash(storedHash) = currentHash
            /\ call.pre.storedHash # NoHash =>
                  /\ call.ret.isCompatible <=> (currentHash = call.pre.storedHash)
                  /\ storedHash = call.pre.storedHash
            /\ (/\ call.prev.op = "check"
                /\ call.prev.pre.dom = call.pre.dom
                /\ call.prev.ret.isCompatible)
               => call.ret.isCompatible

\* C11 witness: a first check() on an empty guard, then a second check() on
\* the same document, which reports compatible.
C11_Witness ==
    /\ call.op = "check"
    /\ call.prev.op = "check"
    /\ call.prev.pre.storedHash = NoHash
    /\ call.prev.pre.dom = call.pre.dom
    /\ call.ret.isCompatible

\* C11 (as claimed): of two consecutive check() calls on the same document
\* the second reports compatible, whatever the guard held.
C11_SecondCheckCompatible ==
    (/\ call.op = "check"
     /\ call.prev.op = "check"
     /\ call.prev.pre.dom = call.pre.dom)
    => call.ret.isCompatible

\* C12: no guard operation lets an exception of the store escape; a guard
\* created while reading throws holds no fingerprint; an updateHash whose
\* write throws leaves getStoredHash() at the new fingerprint; a check()
\* whose write throws returns the result it returns when the write works,
\* and getStoredHash() then gives the fingerprint it computed.  What check()
\* returns does not depend on the store's content.
C12_StoreFailuresNotFatal ==
    /\ ~call.threw
    /\ (call.op = "create" /\ call.throws) => storedHash = NoHash
    /\ (call.op = "updateHash" /\ call.throws) =>
          getStoredHash(storedHash) = call.arg
    /\ call.op = "check" =>
          LET works == check(call.pre.storedHash, NoHash, call.pre.dom, FALSE)
          IN  /\ call.ret.currentHash = works.currentHash
              /\ call.ret.isCompatible = works.isCompatible
              /\ getStoredHash(storedHash) = works.after.storedHash

\* C12 witness: the read threw at creation although the store held a
\* fingerprint, and the write threw in the check() that followed.
C12_Witness ==
    /\ call.op = "check" /\ call.throws
    /\ call.prev.op = "create"
    /\ call.pre.storedHash = NoHash
    /\ call.pre.localStorage # NoHash
    /\ localStorage = call.pre.localStorage
    /\ storedHash = call.ret.currentHash

\* The class tokens of a probe.
ClassSet(probe) ==
    {probe[1].classList[k] : k \in 1..Len(probe[1].classList)}

\* Two documents that differ in the class list of one landmark and in
\* nothing else.
DiffersInClassList(d1, d2) ==
    \E i \in 1..Len(d1) :
        /\ d1[i] # NotFound /\ d2[i] # NotFound
        /\ d1[i][1].tagName = d2[i][1].tagName
        /\ d1[i][1].attributes = d2[i][1].attributes
        /\ ClassSet(d1[i]) # ClassSet(d2[i])
        /\ \A j \in 1..Len(d1) : j # i => d1[j] = d2[j]

\* C13 (as claimed): two documents that differ in the class list of a
\* landmark have different fingerprints, and a check() on the second against
\* the fingerprint stored for the first reports incompatible.
C13_ClassListChangeDetected ==
    \A d1 \in GuardDocuments :
        (/\ call.op = "check"
         /\ call.pre.storedHash = generateDomHash(d1)
         /\ DiffersInClassList(d1, call.pre.dom))
        => /\ generateDomHash(d1) # generateDomHash(call.pre.dom)
           /\ ~call.ret.isCompatible

\* C3: in every reachable state the token count lies in [0, maxTokens].
C3_TokensBounded == 0 <= state.tokens /\ state.tokens <= maxTokens

\* C3 witness: a successful tryConsume emptied the bucket, and the clock has
\* advanced since construction (so refills have happened).
C3_Witness ==
    /\ call.op = "tryConsume" /\ call.b /\ call.count > 0
    /\ state.tokens = 0 /\ now > 0

\* C4: a tryConsume that is outside a pause and finds, after the refill, fewer
\* tokens than count returns false and leaves exactly the refilled count.
C4_NoPartialDebit ==
    (/\ call.op = "tryConsume"
     /\ ~ActivePause(call.pre, now)
     /\ ~PauseDue(call.pre, now)
     /\ Refilled(call.pre, now) < call.count)
    => (call.b = FALSE /\ state.tokens = Refilled(call.pre, now))

\* C4 witness: such a call found a positive token count it could have debited
\* in part.
C4_Witness ==
    /\ call.op = "tryConsume" /\ ~call.b
    /\ ~ActivePause(call.pre, now) /\ ~PauseDue(call.pre, now)
    /\ Refilled(call.pre, now) < call.count
    /\ Refilled(call.pre, now) > call.pre.tokens
    /\ state.tokens > 0

\* C5: a tryConsume at a time when the pause interval has elapsed since the
\* last pause check arms a pause ending in [now + min, now + max] and sets
\* lastPauseCheck to now, whatever it returns; otherwise it arms no pause and
\* leaves lastPauseCheck unchanged.
C5_PauseArming ==
    call.op = "tryConsume" =>
        IF now - call.pre.lastPauseCheck >= PauseInterval
        THEN /\ state.pausedUntil # Null
             /\ now + PauseMin <= state.pausedUntil
             /\ state.pausedUntil <= now + PauseMax
             /\ state.lastPauseCheck = now
        ELSE /\ state.lastPauseCheck = call.pre.lastPauseCheck
             /\ state.pausedUntil \in {Null, call.pre.pausedUntil}

\* C5 witness: a tryConsume armed a pause when the interval had elapsed.
C5_Witness ==
    /\ call.op = "tryConsume"
    /\ now - call.pre.lastPauseCheck >= PauseInterval
    /\ state.pausedUntil > now

\* C6: a tryConsume made inside an active pause window returns false and
\* leaves the token count and the last-refill timestamp unchanged.
C6_PausedCallTouchesNothing ==
    (call.op = "tryConsume" /\ ActivePause(call.pre, now))
    => /\ call.b = FALSE
       /\ state.tokens = call.pre.tokens
       /\ state.lastRefill = call.pre.lastRefill

\* C6 witness: a call inside a pause asked for a count the refilled bucket
\* covers, at a time when a refill would have added tokens.
C6_Witness ==
    /\ call.op = "tryConsume" /\ ActivePause(call.pre, now)
    /\ call.count > 0
    /\ call.count <= call.pre.tokens
    /\ Refilled(call.pre, now) > call.pre.tokens

\* C7: isPaused() returns true exactly inside the window [t, pausedUntil) and
\* false from pausedUntil on; the first isPaused or tryConsume evaluation at a
\* time >= pausedUntil clears pausedUntil, and nothing else (the clock
\* advancing, getTokens, getResumeTime) clears it.
C7_LazyExpiry ==
    /\ call.op = "isPaused" =>
          /\ call.b = (call.pre.pausedUntil # Null /\ now < call.pre.pausedUntil)
          /\ (call.b => state = call.pre)
          /\ (~call.b => state.pausedUntil = Null)
    /\ (call.op = "tryConsume" /\ ~PauseDue(call.pre, now)
            /\ ~ActivePause(call.pre, now))
          => state.pausedUntil = Null
    /\ call.op \in {"advance", "getTokens", "getResumeTime"}
          => state.pausedUntil = call.pre.pausedUntil

\* C7 witness: isPaused() found a window that had ended at an earlier tick,
\* still stored, and cleared it.
C7_Witness ==
    /\ call.op = "isPaused" /\ ~call.b
    /\ call.pre.pausedUntil # Null /\ call.pre.pausedUntil < now
    /\ state.pausedUntil = Null

\* C8 (as claimed): getResumeTime() returns null when isPaused() would return
\* false at the current time, and a timestamp > now when it would return true.
C8_ResumeTimeMatchesPause ==
    call.op = "getResumeTime" =>
        IF isPausedRet(call.pre, now)
        THEN call.n # Null /\ call.n > now
        ELSE call.n = Null

\* C9: getTokens() returns floor(min(maxTokens, tokens + elapsed * refillRate));
\* once the elapsed time covers maxTokens / refillRate it returns maxTokens.
C9_RefillProportionalCapped ==
    call.op = "getTokens" =>
        LET elapsed == now - call.pre.lastRefill
            sum == call.pre.tokens + elapsed * RefillUnits
            capped == IF sum > maxTokens THEN maxTokens ELSE sum
        IN  /\ call.n = capped \div TokenScale
            /\ state.tokens = capped
            /\ call.n <= MaxTokens
            /\ (elapsed * RefillUnits >= maxTokens => call.n = MaxTokens)

\* C9 witness: the bucket was empty and getTokens() came after a wait longer
\* than maxTokens / refillRate.
C9_Witness ==
    /\ call.op = "getTokens"
    /\ call.pre.tokens = 0
    /\ (now - call.pre.lastRefill) * RefillUnits > maxTokens
    /\ call.n = MaxTokens

\* C10: reset() at time now leaves tokens = maxTokens, pausedUntil = null and
\* lastRefill = lastPauseCheck = now, so isPaused() is false and getTokens() is
\* maxTokens right after it, and a tryConsume made on the reset state less
\* than pauseInterval later arms no pause.
C10_Reset ==
    /\ call.op = "reset" =>
          /\ state.tokens = maxTokens
          /\ state.pausedUntil = Null
          /\ state.lastRefill = now
          /\ state.lastPauseCheck = now
          /\ ~isPausedRet(state, now)
          /\ getTokensRet(state, now) = MaxTokens
    /\ (/\ call.op = "tryConsume"
        /\ call.pre.tokens = maxTokens
        /\ call.pre.pausedUntil = Null
        /\ call.pre.lastRefill = call.pre.lastPauseCheck
        /\ now - call.pre.lastPauseCheck < PauseInterval)
       => state.pausedUntil = Null

\* C10 witness: reset() was called inside an active pause with a depleted
\* bucket.
C10_Witness ==
    /\ call.op = "reset"
    /\ ActivePause(call.pre, now)
    /\ call.pre.tokens < maxTokens
    /\ call.pre.lastPauseCheck < now

\* ------------------------------------------------- traversal claims

\* The node reached from node by following k return links, null once the
\* chain has ended.
RECURSIVE KthParent(_, _, _)
KthParent(up, node, k) ==
    IF k = 0 THEN node
    ELSE LET below == KthParent(up, node, k - 1)
         IN  IF below = TNull THEN TNull ELSE up[below]

\* The depths, up to most, of the nodes of the parent chain that satisfy
\* the predicate.
MatchDepths(up, node, predicate, most) ==
    {k \in 0..most : KthParent(up, node, k) \in predicate}

SetMin(S) == CHOOSE x \in S : \A y \in S : x <= y

\* C14: traverseUpwards(node, p, maxDepth) returns ok(m), m the nearest node
\* of node's parent chain (node itself at depth 0) that satisfies p, when
\* m's depth is at most maxDepth, and a TRAVERSAL_FAILED error in every
\* other case; with maxDepth = 0 it succeeds exactly when p(node) holds.
C14_UpwardsNearestMatch ==
    call.op = "traverseUpwards" =>
        LET depths == MatchDepths(call.graph.return, call.fiberNode,
                                  call.predicate, call.limit)
        IN  /\ IF depths # {}
               THEN call.ret = ok(KthParent(call.graph.return, call.fiberNode,
                                            SetMin(depths)))
               ELSE /\ ~call.ret.ok
                    /\ call.ret.error.type = "TRAVERSAL_FAILED"
            /\ call.limit = 0 => (call.ret.ok <=> call.fiberNode \in call.predicate)

\* C14 witness: a walk that found its match two links up, exactly at
\* maxDepth.
C14_Witness ==
    /\ call.op = "traverseUpwards"
    /\ call.limit = 2
    /\ call.ret.ok
    /\ call.fiberNode \notin call.predicate
    /\ call.graph.return[call.fiberNode] \notin call.predicate
    /\ call.ret.value = call.graph.return[call.graph.return[call.fiberNode]]

\* The entries of a list of nodes that satisfy the predicate, in order.
Matching(nodes, predicate) ==
    LET Holds(n) == n \in predicate
    IN  SelectSeq(nodes, Holds)

\* C15: a successful traverseDownwards(node, p, maxDepth) returns the first
\* node satisfying p in pre-order among the nodes the bounded walk reaches,
\* and the call fails with TRAVERSAL_FAILED exactly when no reached node
\* satisfies p.
C15_DownwardsFirstInPreOrder ==
    call.op = "traverseDownwards" =>
        LET reached == PreOrder(call.graph, call.fiberNode, 0, call.limit)
            hits == Matching(reached, call.predicate)
        IN  /\ call.ret.ok => /\ hits # <<>>
                              /\ call.ret.value = hits[1]
            /\ ~call.ret.ok <=> hits = <<>>
            /\ ~call.ret.ok => call.ret.error.type = "TRAVERSAL_FAILED"

\* C15 witness: the start node and its child, a node of its own, were
\* tested without a match and the match came from the sibling, a third
\* node.
C15_Witness ==
    /\ call.op = "traverseDownwards"
    /\ call.ret.ok
    /\ call.fiberNode \notin call.predicate
    /\ call.graph.child[call.fiberNode] \notin {TNull, call.fiberNode}
    /\ call.graph.sibling[call.fiberNode]
           \notin {TNull, call.fiberNode, call.graph.child[call.fiberNode]}
    /\ call.ret.value = call.graph.sibling[call.fiberNode]

\* C16: on a finite tree, collectNodes with maxNodes = N >= 0 returns the
\* first min(N, M) matching nodes in pre-order, M the number of matching
\* nodes: a list of length at most N, and of length below N only when
\* M < N.
C16_CollectFirstMatches ==
    (call.op = "collectNodes" /\ IsTree(call.graph, call.fiberNode)) =>
        LET all == Matching(AllPreOrder(call.graph, call.fiberNode),
                            call.predicate)
        IN  /\ ~call.ret.threw
            /\ call.ret.results = SubSeq(all, 1, Min(call.limit, Len(all)))
            /\ Len(call.ret.results) <= call.limit
            /\ Len(call.ret.results) < call.limit => Len(all) < call.limit

\* C16 witness: a tree of three nodes, all matching, collected with
\* maxNodes = 2.
C16_Witness ==
    /\ call.op = "collectNodes"
    /\ IsTree(call.graph, call.fiberNode)
    /\ Len(AllPreOrder(call.graph, call.fiberNode)) = 3
    /\ call.predicate = TNodes
    /\ call.limit = 2
    /\ Len(call.ret.results) = 2

\* C17: collectNodes cannot fail: on every node graph, cyclic ones
\* included, and for every predicate it terminates and returns a list.
C17_CollectNeverFails ==
    call.op = "collectNodes" => ~call.ret.threw

\* ------------------------------------------------- parser claims

\* A property that is absent: undefined or null.
Absent(value) == value \in {Undefined, JsNull}

IsObject(value) == value.type = "object"

\* C18: parseMessage fails with INVALID_PROPS on null and on every value
\* that is no object; on an object whose id is absent it fails with
\* MISSING_REQUIRED_FIELD naming the identifier, whatever t is; on an
\* object whose id is present and whose t is absent it fails with
\* MISSING_REQUIRED_FIELD naming the timestamp.
C18_FailureClassification ==
    call.op = "parseMessage" =>
        /\ ~IsObject(call.props) =>
              /\ ~call.ret.ok
              /\ call.ret.error.type = "INVALID_PROPS"
        /\ (IsObject(call.props) /\ Absent(call.props.fields.id)) =>
              /\ ~call.ret.ok
              /\ call.ret.error.type = "MISSING_REQUIRED_FIELD"
              /\ call.ret.error.message = <<"Message ID is required">>
        /\ (/\ IsObject(call.props)
            /\ ~Absent(call.props.fields.id)
            /\ Absent(call.props.fields.t)) =>
              /\ ~call.ret.ok
              /\ call.ret.error.type = "MISSING_REQUIRED_FIELD"
              /\ call.ret.error.message = <<"Message timestamp is required">>

\* C18 witness: parseMessage({}) has failed: the object has neither id nor
\* t.
C18_Witness ==
    /\ call.op = "parseMessage"
    /\ IsObject(call.props)
    /\ \A name \in DOMAIN call.props.fields :
          call.props.fields[name] = Undefined
    /\ ~call.ret.ok

\* C19: for every props object whose id is a string and whose t is a
\* number other than NaN, parseMessage succeeds and the record's id and
\* timestamp are the input's id and t, whatever the other fields hold; with
\* t = NaN it fails with INVALID_PROPS.
C19_RoundTripNonNaN ==
    (/\ call.op = "parseMessage"
     /\ IsObject(call.props)
     /\ call.props.fields.id.type = "string"
     /\ call.props.fields.t.type = "number") =>
        IF call.props.fields.t = NaN
        THEN /\ ~call.ret.ok
             /\ call.ret.error.type = "INVALID_PROPS"
        ELSE /\ call.ret.ok
             /\ call.ret.value.id = call.props.fields.id
             /\ call.ret.value.timestamp = call.props.fields.t

\* C19 witness: a message with a string id and a numeric t was parsed
\* while its optional fields held values of the wrong kind.
C19_Witness ==
    /\ call.op = "parseMessage"
    /\ call.ret.ok
    /\ call.props.fields.id = Str("x")
    /\ call.props.fields.t = Num(MaxTimestamp)
    /\ call.props.fields.body = Num(1)
    /\ call.props.fields.ack = NaN
    /\ call.props.fields.mediaData = Str("image")

\* C19 as stated: for every props object whose id is a string and whose t
\* is a number, parseMessage succeeds and the record's id and timestamp are
\* the input's id and t.
C19_RoundTrip ==
    (/\ call.op = "parseMessage"
     /\ IsObject(call.props)
     /\ call.props.fields.id.type = "string"
     /\ call.props.fields.t.type = "number") =>
        /\ call.ret.ok
        /\ call.ret.value.id = call.props.fields.id
        /\ call.ret.value.timestamp = call.props.fields.t

\* A props object with the id and t of props and no other field.
RequiredOnly(props) ==
    Obj([name \in DOMAIN props.fields |->
            IF name \in {"id", "t"} THEN props.fields[name] ELSE Undefined])

\* Success, or the type of the error.
OutcomeOf(result) == IF result.ok THEN "ok" ELSE result.error.type

\* A mediaData value that parseAttachment accepts: an object whose type is
\* one of the listed strings.
AcceptedMedia(mediaData) ==
    /\ IsObject(mediaData)
    /\ mediaData.fields.type.type = "string"
    /\ mediaData.fields.type.str \in validTypes

\* C20: the optional fields never decide the outcome of parseMessage: a
\* props object succeeds, or fails with the same error type, as the object
\* with the same id and t and nothing else does.  On success a mediaData
\* that parseAttachment rejects gives no attachment, one it accepts gives
\* exactly one, and a message never has more than one.
C20_OptionalFieldsNeverDecide ==
    (call.op = "parseMessage" /\ IsObject(call.props)) =>
        /\ \A uuid \in UUIDs :
              OutcomeOf(call.ret)
                  = OutcomeOf(parseMessage(RequiredOnly(call.props), uuid))
        /\ call.ret.ok =>
              /\ Len(call.ret.value.attachments) <= 1
              /\ Len(call.ret.value.attachments)
                     = (IF AcceptedMedia(call.props.fields.mediaData)
                        THEN 1 ELSE 0)
              /\ AcceptedMedia(call.props.fields.mediaData) =>
                     call.ret.value.attachments[1].type
                         = call.props.fields.mediaData.fields.type

\* C20 witness: a message whose mediaData is an object of an unlisted type
\* was parsed and has no attachment.
C20_Witness ==
    /\ call.op = "parseMessage"
    /\ call.ret.ok
    /\ IsObject(call.props.fields.mediaData)
    /\ call.props.fields.mediaData.fields.type = Str("bogus")
    /\ call.ret.value.attachments = <<>>

\* What parseSender returns for an object whose id is a string.
SenderOf(fields) ==
    [id |-> fields.id,
     name |-> IF fields.name.type = "string" THEN fields.name ELSE fields.id,
     pushName |-> IF fields.pushname.type = "string"
                  THEN fields.pushname ELSE JsNull,
     isContact |-> Bool(fields.isContact \in {Bool(TRUE), Str("true"), Num(1)})]

\* C21: parseSender fails with INVALID_PROPS exactly when props is no
\* object or is an object whose id is present and is not a string, fails
\* with MISSING_REQUIRED_FIELD exactly when props is an object whose id is
\* absent, and succeeds in every other case with the identifier, the name
\* (the identifier when no string name is given), the optional push-name
\* and the coerced contact flag.
C21_SenderContract ==
    call.op = "parseSender" =>
        IF ~IsObject(call.props)
        THEN OutcomeOf(call.ret) = "INVALID_PROPS"
        ELSE IF Absent(call.props.fields.id)
        THEN OutcomeOf(call.ret) = "MISSING_REQUIRED_FIELD"
        ELSE IF call.props.fields.id.type # "string"
        THEN OutcomeOf(call.ret) = "INVALID_PROPS"
        ELSE call.ret = ok(SenderOf(call.props.fields))

\* C21 witness: a sender with a string id and a name that is no string was
\* parsed; its name is the identifier.
C21_Witness ==
    /\ call.op = "parseSender"
    /\ call.ret.ok
    /\ call.props.fields.name = Num(1)
    /\ call.props.fields.isContact = Str("true")
    /\ call.ret.value.name = call.props.fields.id

\* C21 as stated: parseSender fails with INVALID_PROPS exactly when props
\* is not an object, fails with MISSING_REQUIRED_FIELD exactly when props
\* is an object without an identifier, and succeeds in every other case.
C21_SenderAsStated ==
    call.op = "parseSender" =>
        /\ OutcomeOf(call.ret) = "INVALID_PROPS" <=> ~IsObject(call.props)
        /\ OutcomeOf(call.ret) = "MISSING_REQUIRED_FIELD"
              <=> (IsObject(call.props) /\ Absent(call.props.fields.id))
        /\ (IsObject(call.props) /\ ~Absent(call.props.fields.id))
              => call.ret = ok(SenderOf(call.props.fields))

\* The bag holds a value under name: the property is there and is neither
\* undefined nor null.
HoldsValue(bag, name) == name \in DOMAIN bag /\ ~Absent(bag[name])

\* The value extractMessageFromFiber hands on: "message" when it holds a
\* value, else "msg" when the bag has it, else undefined.
ChosenProps(bag) ==
    IF HoldsValue(bag, "message") THEN bag["message"]
    ELSE IF "msg" \in DOMAIN bag THEN bag["msg"]
    ELSE Undefined

NoMessageProperty ==
    err([type |-> "MISSING_REQUIRED_FIELD",
         message |-> <<"No message property found in Fiber node props">>])

\* C22: extractMessageFromFiber(node) fails with its own
\* MISSING_REQUIRED_FIELD error exactly when the value it chooses is
\* undefined, the value being "message" when that property is neither
\* null nor undefined and "msg" (undefined if the bag lacks it) otherwise;
\* in every other case its result is parseMessage of the chosen value.
C22_ExtractDelegates ==
    call.op = "extractMessageFromFiber" =>
        LET chosen == ChosenProps(call.props.memoizedProps)
        IN  IF chosen = Undefined
            THEN call.ret = NoMessageProperty
            ELSE \E uuid \in UUIDs : call.ret = parseMessage(chosen, uuid)

\* C22 witness: the bag held a message under both names and the one under
\* "message" was parsed.
C22_Witness ==
    /\ call.op = "extractMessageFromFiber"
    /\ DOMAIN call.props.memoizedProps = {"message", "msg"}
    /\ call.props.memoizedProps["message"] = Obj([id |-> Str("m1"), t |-> Num(1)])
    /\ call.props.memoizedProps["msg"] # call.props.memoizedProps["message"]
    /\ HoldsValue(call.props.memoizedProps, "msg")
    /\ call.ret.ok
    /\ call.ret.value.id = Str("m1")

\* C22 as stated: the call fails with MISSING_REQUIRED_FIELD if and only
\* if the bag has neither property; otherwise its result is parseMessage
\* of "message" when that property exists and of "msg" only when it does
\* not.
C22_ExtractAsStated ==
    call.op = "extractMessageFromFiber" =>
        LET bag == call.props.memoizedProps
        IN  /\ OutcomeOf(call.ret) = "MISSING_REQUIRED_FIELD"
                  <=> DOMAIN bag \cap {"message", "msg"} = {}
            /\ "message" \in DOMAIN bag =>
                  \E uuid \in UUIDs : call.ret = parseMessage(bag["message"], uuid)
            /\ ("message" \notin DOMAIN bag /\ "msg" \in DOMAIN bag) =>
                  \E uuid \in UUIDs : call.ret = parseMessage(bag["msg"], uuid)

\* C23: in every NormalizedMessage that parseMessage returns, the sender's
\* display name equals its identifier whenever no separate display name
\* was supplied.  (RawMessageProps has no field for a display name, so
\* none is ever supplied.)
C23_SenderNameFallsBackToId ==
    (call.op = "parseMessage" /\ call.ret.ok) =>
        call.ret.value.sender.name = call.ret.value.sender.id

\* The nodes extractMessages collects on a page: the nodes called Message
\* under the fiber, in pre-order.
CollectedNodes(page) ==
    Matching(AllPreOrder(page.graph, page.fiber),
             byComponentName(page, "Message"))

\* C24: extractMessages returns exactly the messages of the collected nodes
\* for which extractMessageFromFiber succeeds, in collection order: a node
\* that fails to parse neither stops the loop nor removes or reorders the
\* messages of the other nodes.
C24_FailuresSkipped ==
    (call.op = "extractMessages" /\ call.props.container
                                 /\ call.props.fiber # TNull) =>
        \E uuids \in [TNodes -> UUIDs] :
            LET Extracted(n) ==
                    extractMessageFromFiber(
                        [memoizedProps |-> call.props.memoizedProps[n]], uuids[n])
                Parses(n) == Extracted(n).ok
                parsed == SelectSeq(CollectedNodes(call.props), Parses)
            IN  /\ ~call.ret.threw
                /\ Len(call.ret.messages) = Len(parsed)
                /\ \A i \in 1..Len(parsed) :
                      call.ret.messages[i] = Extracted(parsed[i]).value

\* C24 witness: three nodes were collected, the second failed to parse, and
\* the messages of the first and the third came back in that order.
C24_Witness ==
    /\ call.op = "extractMessages"
    /\ call.props.container
    /\ call.props.fiber # TNull
    /\ Len(CollectedNodes(call.props)) = 3
    /\ call.props.memoizedProps[CollectedNodes(call.props)[2]]
           = [message |-> Obj([t |-> Num(1)])]
    /\ Len(call.ret.messages) = 2
    /\ call.ret.messages[1].id = Str("m1")
    /\ call.ret.messages[2].id = Str("m3")

\* ------------------------------------------------- session claims

\* The session has entered the extract-then-scroll cycle or passed it.
InCycle(sess) == sess.compatible /\ sess.posted # <<>>

\* C25: the extract-then-scroll cycle ends for every scrollDepth.  While
\* each scrollUp moves the viewport up or leaves it at the top, a session
\* is in the cycle only with totalScrolled < scrollDepth, every scrollUp but
\* the first starts below the top and lower than the one before, so that
\* the scrollUps number at most scrollDepth and at most the height of the
\* chat; a session that left the cycle has posted the final batch; and the
\* session is done in the end.
C25_CycleTerminates ==
    /\ [](\A i \in 1..Len(sessions) :
             LET sess == sessions[i]
             IN  /\ sess.pc # "done" =>
                       /\ sess.totalScrolled < sess.depth
                       /\ sess.scrolls - 1 <= sess.totalScrolled
                       /\ sess.scrolls > 1 => sess.start > 0
                       /\ sess.start + sess.scrolls - 1 <= MaxScrollTop
                 /\ (sess.pc = "done" /\ InCycle(sess)) =>
                       sess.posted[Len(sess.posted)]
                           = DataExtracted(sess.batchIndex, TRUE))
    /\ <>(Len(sessions) = 1 /\ sessions[1].pc = "done")

\* C25 witness: a session went through the cycle twice and is done, its
\* final batch posted with batchIndex 2.
C25_Witness ==
    /\ Len(sessions) = 1
    /\ sessions[1].pc = "done"
    /\ sessions[1].scrolls = 2
    /\ sessions[1].posted[3] = DataExtracted(2, TRUE)

\* C26: a scrollUp / scrollDown completes once, and only after a frame
\* with progress = 1 has written start + sign * actualDistance; with the
\* micro-pause drawn it completes only when the pause has elapsed; after
\* the progress = 1 frame no frame is pending and no position is written;
\* the distance reported is |scrollTop at completion - start|.
C26_ScrollCompletesOnce ==
    /\ call.resolves <= 1
    /\ call.final =>
          /\ ~call.pending
          /\ ~call.late
          /\ call.written = call.startPosition + call.sign * call.actualDistance
    /\ call.pc = "resolved" =>
          /\ call.resolves = 1
          /\ call.final
          /\ call.pause => call.resolvedAt >= call.due
          /\ call.distance = Abs(call.topAtResolve - call.startPosition)
          /\ ~call.pause => call.topAtResolve = Clamp(call.written)
    /\ (call.pc = "pausing") => (call.final /\ call.resolves = 0)
    /\ (call.pc = "animating") => (~call.final /\ call.resolves = 0)

\* C26 witness: a scrollDown completed after its micro-pause, during which
\* the viewport was moved: the distance reported is not the distance
\* scrolled.
C26_Witness ==
    /\ call.op = "down"
    /\ call.pc = "resolved"
    /\ call.pause
    /\ call.resolvedAt > call.startTime + call.duration
    /\ call.topAtResolve # Clamp(call.written)
    /\ call.distance = Abs(scrollTop - call.startPosition)

\* C27: an active pause does not suppress arming: tryConsume called with
\* now < pausedUntil and now - lastPauseCheck >= pauseInterval replaces
\* pausedUntil by a window end in [now + pauseDuration.min,
\* now + pauseDuration.max] and advances lastPauseCheck to now.
C27_ActivePauseDoesNotSuppressArming ==
    (/\ call.op = "tryConsume"
     /\ ActivePause(call.pre, now)
     /\ now - call.pre.lastPauseCheck >= PauseInterval) =>
        /\ state.pausedUntil # Null
        /\ state.pausedUntil >= now + PauseMin
        /\ state.pausedUntil <= now + PauseMax
        /\ state.lastPauseCheck = now
        /\ ~call.b

\* C27 witness: tryConsume came inside a pause window with the next pause
\* already due, and the window's end moved.
C27_Witness ==
    /\ call.op = "tryConsume"
    /\ ActivePause(call.pre, now)
    /\ now - call.pre.lastPauseCheck >= PauseInterval
    /\ state.pausedUntil # call.pre.pausedUntil
    /\ state.lastPauseCheck = now

\* C30: tryConsume(count) with 0 <= count <= the refilled token count, no
\* pause window active and no mandatory pause due (now - lastPauseCheck <
\* pauseInterval), returns true and debits exactly count tokens.
C30_CoveredCallSucceeds ==
    (/\ call.op = "tryConsume"
     /\ ~ActivePause(call.pre, now)
     /\ ~PauseDue(call.pre, now)
     /\ call.count <= Refilled(call.pre, now)) =>
        /\ call.b
        /\ state.tokens = Refilled(call.pre, now) - call.count
        /\ state.pausedUntil = Null

\* C30 witness: a covered call after an idle time short of pauseInterval,
\* with an expired pause window still stored, took the whole refilled bucket.
C30_Witness ==
    /\ call.op = "tryConsume"
    /\ call.pre.pausedUntil # Null
    /\ ~ActivePause(call.pre, now)
    /\ ~PauseDue(call.pre, now)
    /\ now > call.pre.lastRefill
    /\ call.count > call.pre.tokens
    /\ call.count = Refilled(call.pre, now)
    /\ call.b
    /\ state.tokens = 0

\* C30 as stated: the same without the condition on the idle time.
C30_IdleCallSucceeds ==
    (/\ call.op = "tryConsume"
     /\ ~ActivePause(call.pre, now)
     /\ call.count <= Refilled(call.pre, now)) =>
        /\ call.b
        /\ state.tokens = Refilled(call.pre, now) - call.count

\* The nodes of a child list and below it, down to tree depth cutoff:
\* current is at tree depth level, and so are its siblings; its children
\* are one level deeper.  For trees.
RECURSIVE Below(_, _, _, _)
Below(graph, current, level, cutoff) ==
    IF current = TNull \/ level > cutoff THEN {}
    ELSE {current}
         \cup Below(graph, graph.child[current], level + 1, cutoff)
         \cup Below(graph, graph.sibling[current], level, cutoff)

\* The subtree of node down to tree depth cutoff: node and what lies below
\* it, not node's own siblings.
BoundedSubtree(graph, node, cutoff) ==
    {node} \cup Below(graph, graph.child[node], 1, cutoff)

\* C28: on a tree, traverseDownwards(node, p, maxDepth) finds a match
\* whenever a node satisfying p lies in the subtree of node at tree depth
\* <= maxDepth, whatever its position among its siblings, and fails only
\* when no node of that subtree satisfies p.
C28_DownwardsFindsWithinTreeDepth ==
    (/\ call.op = "traverseDownwards"
     /\ IsTree(call.graph, call.fiberNode)) =>
        LET subtree == BoundedSubtree(call.graph, call.fiberNode, call.limit)
        IN  /\ (subtree \cap call.predicate # {}) => call.ret.ok
            /\ ~call.ret.ok =>
                  /\ call.ret.error.type = "TRAVERSAL_FAILED"
                  /\ subtree \cap call.predicate = {}

\* The executeScrape sessions in progress: started and not yet returned.
InProgress == {i \in 1..Len(sessions) : sessions[i].pc # "done"}

\* C29: at most one executeScrape session is in progress in the page at any
\* time: a SCRAPE_COMMAND that arrives while a session is extracting and
\* scrolling starts no second session on the same container.
C29_OneSessionInProgress == Cardinality(InProgress) <= 1

\* C31: no starvation: with 1 <= count <= maxTokens and pauseDuration.max <
\* pauseInterval, a caller that keeps retrying tryConsume(count) while the
\* clock keeps advancing is eventually admitted.
C31_NoStarvation == <>(call.op = "tryConsume" /\ call.b)

\* The units admitted from tick t1 to tick t2, both included.
RECURSIVE SpentBetween(_, _, _)
SpentBetween(spent, t1, t2) ==
    IF t1 > t2 THEN 0 ELSE spent[t1] + SpentBetween(spent, t1 + 1, t2)

\* C32: without reset(), for every interval [t1, t2] the counts of the
\* tryConsume calls that returned true within it sum to at most
\* maxTokens + (t2 - t1) * refillRate.
C32_RateBound ==
    \A t1 \in 0..now : \A t2 \in t1..now :
        SpentBetween(call.spent, t1, t2)
            <= maxTokens + (t2 - t1) * RefillUnits

\* C32 witness: the bound is met exactly over an interval of three ticks
\* or more, with tokens spent before its second tick, at its second tick
\* (less than a full bucket) and at its last tick.
C32_Witness ==
    \E t1 \in 1..now : \E t2 \in (t1 + 2)..now :
        /\ call.spent[t1] > 0
        /\ call.spent[t1] < maxTokens
        /\ call.spent[t2] > 0
        /\ SpentBetween(call.spent, 0, t1 - 1) > 0
        /\ SpentBetween(call.spent, t1 - 1, t2)
               = maxTokens + (t2 - t1 + 1) * RefillUnits

\* C33: tryConsume never adds tokens beyond the time-based refill: for
\* every count, 0 and negative ones included, the token count after the
\* call is <= min(maxTokens, tokens before + elapsed * refillRate).
C33_NoTokensAdded ==
    call.op = "tryConsume" => state.tokens <= Refilled(call.pre, now)

\* A node and its descendants in a tree: the node, and what its child link
\* leads to.
Descendants(graph, node) == BoundedSubtree(graph, node, MaxTreeNodes)

\* C34: on a tree, every node returned by traverseDownwards(node, p) or
\* contained in collectNodes(node, p) is node or a descendant of node; the
\* siblings of the start node and their descendants are never returned.
C34_ResultsWithinSubtree ==
    IsTree(call.graph, call.fiberNode) =>
        /\ (call.op = "traverseDownwards" /\ call.ret.ok) =>
              call.ret.value \in Descendants(call.graph, call.fiberNode)
        /\ (call.op = "collectNodes" /\ ~call.ret.threw) =>
              \A i \in 1..Len(call.ret.results) :
                  call.ret.results[i]
                      \in Descendants(call.graph, call.fiberNode)

\* C35: check() never changes a stored fingerprint once one exists: a
\* check() on a guard that holds one leaves it, in the guard and in the
\* store, and after a check() that reports a mismatch the next check() on
\* the same document reports a mismatch as well, unless updateHash() was
\* called in between.
C35_CheckLeavesStoredHash ==
    call.op = "check" =>
        /\ call.pre.storedHash # NoHash =>
              /\ storedHash = call.pre.storedHash
              /\ localStorage = call.pre.localStorage
              /\ getStoredHash(storedHash) = call.pre.storedHash
        /\ ~call.ret.isCompatible =>
              /\ storedHash = call.pre.storedHash
              /\ check(storedHash, localStorage, call.pre.dom, FALSE).isCompatible
                     = FALSE
        /\ (/\ call.prev.op = "check"
            /\ ~call.prev.ret.isCompatible
            /\ call.prev.pre.dom = call.pre.dom) =>
              ~call.ret.isCompatible

\* C35 witness: two check() calls in a row on the same document, which is
\* not the one the stored fingerprint was taken from: both report a
\* mismatch, and the fingerprint is still the stored one.
C35_Witness ==
    /\ call.op = "check"
    /\ call.prev.op = "check"
    /\ call.prev.pre.dom = call.pre.dom
    /\ ~call.prev.ret.isCompatible
    /\ ~call.ret.isCompatible
    /\ storedHash = call.prev.pre.storedHash
    /\ storedHash # NoHash
    /\ storedHash # generateDomHash(dom)

\* The DATA_EXTRACTED events among the events a session has posted, in
\* order.
Batches(posted) ==
    LET IsBatch(e) == e.type = "DATA_EXTRACTED"
    IN  SelectSeq(posted, IsBatch)

\* C36: within one executeScrape session the DATA_EXTRACTED events carry
\* batchIndex 0, 1, 2, ... in order; every one but the last carries
\* isComplete = false; a session that has extracted and returned has posted
\* exactly one with isComplete = true, the last one, whose batchIndex is the
\* number of batches before it; a session still in its loop has posted none.
C36_BatchesInOrder ==
    \A i \in 1..Len(sessions) :
        LET batches == Batches(sessions[i].posted)
        IN  /\ \A k \in 1..Len(batches) :
                  /\ batches[k].payload.batchIndex = k - 1
                  /\ batches[k].payload.isComplete
                         = (k = Len(batches) /\ sessions[i].pc = "done")
            /\ sessions[i].pc # "done" =>
                  /\ Len(batches) = sessions[i].scrolls
                  /\ Len(batches) = sessions[i].batchIndex + 1
            /\ batches # <<>> =>
                  batches = sessions[i].posted

\* C36 witness: two sessions have returned, each after two scrolls and
\* three batches.
C36_Witness ==
    /\ Len(sessions) = 2
    /\ \A i \in 1..2 :
          /\ sessions[i].pc = "done"
          /\ Len(Batches(sessions[i].posted)) = 3
          /\ sessions[i].posted[3] = DataExtracted(2, TRUE)

\* C37: no executeScrape session ends without posting an ERROR event or a
\* DATA_EXTRACTED event with isComplete = true as its last event.
C37_SessionEndsWithReport ==
    \A i \in 1..Len(sessions) :
        sessions[i].pc = "done" =>
            /\ sessions[i].posted # <<>>
            /\ LET last == sessions[i].posted[Len(sessions[i].posted)]
               IN  \/ last.type = "ERROR"
                   \/ last.type = "DATA_EXTRACTED" /\ last.payload.isComplete

\* C38: message routing quiesces: a KEEP_ALIVE event (the ready
\* notification or a ping) is handled by the service worker once, and the
\* service worker's reply is not fed back to it as a new request: it handles
\* no more KEEP_ALIVE events than were sent.
C38_RoutingQuiesces ==
    call.keepAlives <= call.pings + (IF call.ready THEN 1 ELSE 0)

\* The executeScrape calls made for the command with correlationId id.
StartedBy(id) == {i \in 1..Len(sessions) : sessions[i].cmd = id}

\* C39: one SCRAPE_COMMAND sent by the popup starts executeScrape once: the
\* command posted into the page does not come back to the page through the
\* content script's window listener and the service worker.
C39_OneCommandOneSession ==
    \A id \in 1..MaxCommands : Cardinality(StartedBy(id)) <= 1

\* C40: every DATA_EXTRACTED event that reaches the service worker leads
\* the offscreen document to persist the batch: once nothing is in flight,
\* saveThreadWithMessages has been called once for every event that
\* arrived.
C40_BatchesPersisted ==
    (swQ = <<>> /\ call.inbox = <<>>) => Len(call.saved) = call.arrived

====
